------------------------------- MODULE Forms --------------------------------
(* packages/vais-web/packages/forms/src: a form with the submissions of its  *)
(* server action (fm), and the validators and the list operations of field   *)
(* arrays, one input at a time (fq).                                         *)
EXTENDS Integers, Sequences, FiniteSets, SequencesExt

CONSTANTS Submissions, \* calls of handleSubmit and of the action's submit
          CrossField   \* the schema is zod-like and compares the two fields

ASSUME FormAssumption == CrossField \in BOOLEAN

VARIABLES fm, fq
formVars == <<fm, fq>>

----------------------------------------------------------------------------
(* validation.ts.  A value is named by its text; "n0" and "n5" are numbers,  *)
(* "null" is null or undefined.                                              *)
FieldValue == {"null", "", "  ", "a", "abcd", "a@b.c", "5", "n0", "n5"}
IsText(v) == v \notin {"null", "n0", "n5"}
Length(v) == CASE v = "" -> 0 [] v \in {"a", "5"} -> 1 [] v = "  " -> 2 [] v = "abcd" -> 4 [] OTHER -> 5
\* Number(value), -1 for NaN: a blank text and null are 0.
ToNumber(v) == CASE v \in {"null", "", "  ", "n0"} -> 0 [] v \in {"5", "n5"} -> 5 [] OTHER -> -1

Required(v) == v \notin {"null", "", "  "}
MinLength(v) == IsText(v) /\ Length(v) >= 2
MaxLength(v) == IsText(v) /\ Length(v) <= 4
Email(v) == v = "a@b.c"
Pattern(v) == IsText(v) /\ v \in {"5", "a"}
Minimum(v) == ToNumber(v) # -1 /\ ToNumber(v) >= 1
Maximum(v) == ToNumber(v) # -1 /\ ToNumber(v) <= 4
ValidationRule == {"required", "minLength", "maxLength", "email", "pattern", "min", "max"}
Validates(rule, v) ==
  CASE rule = "required" -> Required(v) [] rule = "minLength" -> MinLength(v) [] rule = "maxLength" -> MaxLength(v)
    [] rule = "email" -> Email(v) [] rule = "pattern" -> Pattern(v) [] rule = "min" -> Minimum(v) [] rule = "max" -> Maximum(v)
\* The message of the first rule that fails, "none" when none does.
RunFieldValidation(rules, v) ==
  LET at == SelectInSeq(rules, LAMBDA r : ~Validates(r, v)) IN IF at = 0 THEN "none" ELSE rules[at]

\* A schema: [zod, crossField, rules: for each field its rules].  The issues a
\* zod schema finds; "differs" is the issue of a comparison of g with f, which
\* an object without f fails.
SafeParse(schema, values) ==
  [name \in DOMAIN values |->
     LET own == RunFieldValidation(schema.rules[name], values[name])
     IN IF own # "none" THEN own
        ELSE IF schema.crossField /\ name = "g" /\ ("f" \notin DOMAIN values \/ values.g # values.f) THEN "differs" ELSE "none"]
ValidateWithZodSchema(schema, values) == SafeParse(schema, values)
ValidateSchema(schema, values) ==
  IF schema.zod THEN ValidateWithZodSchema(schema, values)
  ELSE [name \in DOMAIN values |-> RunFieldValidation(schema.rules[name], values[name])]
ValidateField(schema, name, v) ==
  IF schema.zod THEN SafeParse(schema, [n \in {name} |-> v])[name] ELSE RunFieldValidation(schema.rules[name], v)

----------------------------------------------------------------------------
(* form.ts, server-action.ts                                                 *)
Fields == {"f", "g"}
DefaultValues == [name \in Fields |-> "abcd"]
Typed == {"", "a", "abcd"}
Schema == [zod |-> CrossField, crossField |-> CrossField, rules |-> [name \in Fields |-> <<"required", "minLength">>]]
Messages == ValidationRule \cup {"none", "differs", "server", "set"}
\* History: edited, the fields changed since a running submission was called with
\* them; about, of a field that shows an error of an answer that came since the
\* last submission began, the value sent, "gone" if it was edited meanwhile.
FormState == [values : [Fields -> Typed], errors : [Fields -> Messages], touched : SUBSET Fields,
              isSubmitting : BOOLEAN, running : SUBSET Submissions, ended : SUBSET Submissions,
              submit : SUBSET Submissions, globalError : BOOLEAN,
              edited : [Submissions -> SUBSET Fields], about : [Fields -> Typed \cup {"none", "gone"}]]
NoErrors == [name \in Fields |-> "none"]
CreateForm == [values |-> DefaultValues, errors |-> NoErrors, touched |-> {}, isSubmitting |-> FALSE,
               running |-> {}, ended |-> {}, submit |-> {}, globalError |-> FALSE,
               edited |-> [c \in Submissions |-> {}], about |-> NoErrors]
FMInit == fm = CreateForm

Snapshot(s) == [isValid |-> s.errors = NoErrors, isDirty |-> s.values # DefaultValues, isSubmitting |-> s.isSubmitting]
ShowField(s, name) == [s EXCEPT !.errors[name] = ValidateField(Schema, name, s.values[name]), !.about[name] = "none"]
Changed(s, names) == [c \in Submissions |-> IF c \in s.running THEN s.edited[c] \cup names ELSE {}]
OnChange(s, name, v) ==
  LET n == [s EXCEPT !.values[name] = v, !.edited = Changed(s, {name})] IN IF name \in s.touched THEN ShowField(n, name) ELSE n
OnBlur(s, name) == ShowField([s EXCEPT !.touched = @ \cup {name}], name)
SetValue(s, name, v) == OnChange(s, name, v)
SetError(s, name, message) == [s EXCEPT !.errors[name] = message, !.about[name] = "none"]
ClearErrors(s) == [s EXCEPT !.errors = NoErrors, !.about = NoErrors]
Reset(s) == [s EXCEPT !.values = DefaultValues, !.errors = NoErrors, !.touched = {}, !.isSubmitting = FALSE,
                      !.about = NoErrors, !.edited = Changed(s, Fields)]

\* Broken variant: the errors of the last submission stay.
SubmitActionKeeping(s, c) == [s EXCEPT !.globalError = FALSE, !.running = @ \cup {c}, !.about = NoErrors]
\* createServerAction().submit up to its await of the action.
SubmitAction(s, c) == [ClearErrors(s) EXCEPT !.globalError = FALSE, !.running = @ \cup {c}]
\* handleSubmit, with submit as the form's onSubmit.
HandleSubmit(s, c) ==
  LET checked == [s EXCEPT !.errors = ValidateSchema(Schema, s.values), !.about = NoErrors, !.touched = Fields]
  IN IF checked.errors # NoErrors THEN checked
     ELSE SubmitAction([checked EXCEPT !.isSubmitting = TRUE, !.submit = @ \cup {c}], c)
ApplyServerErrors(s, fields) == [s EXCEPT !.errors = [name \in Fields |-> IF name \in fields THEN "server" ELSE s.errors[name]]]
\* The action answers or throws; handleSubmit's finally follows it.
ActionEnds(s, c, fields, text) ==
  LET n == [s EXCEPT !.running = @ \ {c}, !.ended = @ \cup {c}, !.globalError = @ \/ text,
                      !.edited[c] = {},
                      !.about = [name \in Fields |-> IF name \notin fields THEN @[name]
                                                     ELSE IF name \in s.edited[c] THEN "gone" ELSE s.values[name]]]
  IN IF c \in s.submit THEN [ApplyServerErrors(n, fields) EXCEPT !.isSubmitting = FALSE] ELSE ApplyServerErrors(n, fields)

Unused(c) == c \notin fm.running \cup fm.ended
FMNext ==
  \/ fm' = Reset(fm)
  \/ fm' = ClearErrors(fm)
  \/ \E name \in Fields : \/ \E v \in Typed : fm' = SetValue(fm, name, v)
                          \/ fm' = OnBlur(fm, name)
                          \/ fm' = SetError(fm, name, "set")
  \/ \E c \in Submissions : \/ Unused(c) /\ fm' = HandleSubmit(fm, c)
                            \/ Unused(c) /\ fm' = SubmitAction(fm, c)
                            \/ \E fields \in SUBSET Fields, text \in BOOLEAN :
                                 c \in fm.running /\ fm' = ActionEnds(fm, c, fields, text)
\* A server action answers or fails in the end.
FMFairness == \A c \in Submissions : WF_fm(\E fields \in SUBSET Fields, text \in BOOLEAN :
                                             c \in fm.running /\ fm' = ActionEnds(fm, c, fields, text))

----------------------------------------------------------------------------
(* field-array.ts.  Indices count from 0.                                    *)
InRange(items, i) == i \in 0 .. Len(items) - 1
AppendItems(items, more) == items \o more
RemoveItem(items, i) == IF InRange(items, i) THEN RemoveAt(items, i + 1) ELSE items
Swap(items, i, j) ==
  IF InRange(items, i) /\ InRange(items, j) THEN [items EXCEPT ![i + 1] = items[j + 1], ![j + 1] = items[i + 1]] ELSE items
Insert(items, i, item) == InsertAt(items, (IF i < 0 THEN 0 ELSE IF i > Len(items) THEN Len(items) ELSE i) + 1, item)
Move(items, from, to) ==
  IF InRange(items, from) /\ InRange(items, to) THEN Insert(RemoveItem(items, from), to, items[from + 1]) ELSE items
Prepend(items, more) == more \o items
Replace(items, more) == more

----------------------------------------------------------------------------
ValidationInputs ==
  {[ask |-> "validate", schema |-> [zod |-> z, crossField |-> FALSE, rules |-> [name \in Fields |-> r]], values |-> [f |-> v, g |-> w]] :
     z \in BOOLEAN, r \in {<<>>} \cup {<<a>> : a \in ValidationRule} \cup {<<a, b>> : a \in ValidationRule, b \in ValidationRule},
     v \in FieldValue, w \in FieldValue}
ArrayInputs == {[ask |-> "array", items |-> SubSeq(<<1, 2, 3, 4>>, 1, n), i |-> i, j |-> j] : n \in 0 .. 4, i \in -1 .. 5, j \in -1 .. 5}
FQInit == fq \in ValidationInputs \/ fq \in ArrayInputs

----------------------------------------------------------------------------
(* Properties                                                                *)
FormTypes == fm \in FormState

\* A form that shows a submission under way has one under way, and an error that
\* a rule of one field raised is about the value the field has now.  However
\* submissions, edits and resets overlap, a server's error is one that an answer
\* named since the last submission began (server-action.ts:57); in a field that
\* was left it is about the value the field has, unless the field was edited
\* before the answer came, which form.ts:152 does not look at.  What a comparison
\* of two fields raised is not bound to their values (validation.ts:247).
FormHonest ==
  /\ Snapshot(fm).isSubmitting => fm.running \cap fm.submit # {}
  /\ \A name \in Fields :
       /\ fm.errors[name] \in ValidationRule => RunFieldValidation(Schema.rules[name], fm.values[name]) = fm.errors[name]
       /\ fm.errors[name] = "server" => fm.about[name] # "none"
       /\ fm.errors[name] = "server" /\ name \in fm.touched => fm.about[name] \in {fm.values[name], "gone"}
\* A submission ends: the form does not stay "submitting".
SubmitEnds == Snapshot(fm).isSubmitting ~> ~Snapshot(fm).isSubmitting

\* Leaving a field and submitting the form find the same error in it.  A move
\* keeps the others in order, and undoes itself; a swap does too; what is
\* inserted can be removed at the place it was put.
FormsRight ==
  /\ fq.ask = "validate" =>
       \A name \in Fields : ValidateSchema(fq.schema, fq.values)[name] = ValidateField(fq.schema, name, fq.values[name])
  /\ fq.ask = "array" =>
       LET in == InRange(fq.items, fq.i) /\ InRange(fq.items, fq.j)
           moved == Move(fq.items, fq.i, fq.j)
       IN /\ in => moved[fq.j + 1] = fq.items[fq.i + 1] /\ RemoveItem(moved, fq.j) = RemoveItem(fq.items, fq.i)
          /\ Move(moved, fq.j, fq.i) = fq.items
          /\ Swap(Swap(fq.items, fq.i, fq.j), fq.j, fq.i) = fq.items
          /\ in /\ fq.j - fq.i \in {-1, 1} => Swap(fq.items, fq.i, fq.j) = moved
          /\ Prepend(AppendItems(fq.items, <<9>>), <<0>>) = Insert(Insert(fq.items, Len(fq.items), 9), 0, 0)
          /\ fq.i >= 0 => RemoveItem(Insert(fq.items, fq.i, 9), IF fq.i > Len(fq.items) THEN Len(fq.items) ELSE fq.i) = Replace(<<>>, fq.items)
=============================================================================
