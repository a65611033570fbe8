SPECIFICATION Spec
INVARIANTS ToolTypes StreamsSound InputsAgree MessagesWhole 
PROPERTIES ToolSteps WaitsSettle
CHECK_DEADLOCK FALSE
