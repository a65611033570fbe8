-------------------------------- MODULE A11y --------------------------------
(* packages/vais-web/packages/a11y/src: the decisions of the checkers, one   *)
(* input at a time.  The same markup is judged by five pieces of code: the   *)
(* patterns, the rules of the engine, the runtime checker, the test queries  *)
(* and the linter.  An element is a function from attribute names to values, *)
(* "-" for an absent one; the ids of a document are "title" and those the    *)
(* input names.  Colours and the layout of reports are left out.             *)
EXTENDS Integers, Sequences, FiniteSets, SequencesExt

VARIABLE ax

AriaNames == {"aria-label", "aria-labelledby", "aria-hidden", "aria-disabled", "aria-expanded", "aria-pressed",
              "aria-required", "aria-invalid", "aria-errormessage", "aria-describedby", "aria-modal", "aria-controls", "aria-owns",
              "aria-haspopup", "aria-activedescendant", "aria-selected", "aria-checked", "aria-level",
              "aria-valuenow", "aria-valuemin", "aria-valuemax", "aria-orientation"}
\* "aria-labeled" is not an attribute of WAI-ARIA.
Attrs == AriaNames \cup {"aria-labeled", "tag", "type", "role", "tabindex", "disabled", "hidden", "href", "alt", "scope",
                         "multiple", "title", "onclick", "onkeydown", "id"}
Plain == [a \in Attrs |-> "-"]
El(given) == given @@ Plain
Has(e, a) == e[a] # "-"
Ids(value) == CASE value \in {"-", ""} -> {} [] value = "both" -> {"title", "gone"} [] OTHER -> {value}
NameOf(raised) == {r[1] : r \in {x \in raised : x[2]}}

----------------------------------------------------------------------------
(* patterns.ts.  ax.el with label, popup, active (roles of the elements it   *)
(* refers to, "-" when there is none) and the focusables inside and outside. *)
FormTags == {"input", "select", "textarea"}
\* Broken variant: overwrites what the author wrote.
SetIfMissingAlways(e, a, value) == [e EXCEPT ![a] = value]
SetIfMissing(e, a, value) == IF Has(e, a) THEN e ELSE [e EXCEPT ![a] = value]
HasAccessibleLabel(d, e) ==
  \/ Has(e, "aria-label")
  \/ Ids(e["aria-labelledby"]) # {} /\ Ids(e["aria-labelledby"]) \subseteq {"title"}
  \/ d.label # "-"
OneOf(e, a, values) == e[a] \in values \cup {"-"}
Bool == {"true", "false"}

ButtonPattern(d, e) ==
  NameOf({<<"role", e["tag"] # "button" /\ e["role"] # "button">>,
          <<"aria-pressed", ~OneOf(e, "aria-pressed", Bool \cup {"mixed"})>>,
          <<"aria-expanded", ~OneOf(e, "aria-expanded", Bool)>>,
          <<"aria-disabled", ~OneOf(e, "aria-disabled", Bool)>>})
InputPattern(d, e) ==
  NameOf({<<"aria-label", ~HasAccessibleLabel(d, e)>>,
          <<"aria-required", ~OneOf(e, "aria-required", Bool)>>,
          <<"aria-invalid", \/ ~OneOf(e, "aria-invalid", Bool \cup {"grammar", "spelling"})
                            \/ e["aria-errormessage"] \notin {"-", ""} /\ e["aria-invalid"] # "true">>,
          <<"aria-describedby", ~(Ids(e["aria-describedby"]) \subseteq {"title"})>>,
          <<"aria-errormessage", e["aria-errormessage"] \notin {"-", "", "title"}>>})
ModalPattern(d, e) ==
  NameOf({<<"role", e["role"] \notin {"dialog", "alertdialog"}>>,
          <<"aria-modal", e["aria-modal"] # "true">>,
          <<"aria-labelledby", Ids(e["aria-labelledby"]) = {} \/ "gone" \in Ids(e["aria-labelledby"])>>,
          <<"focusable-content", d.inside \ {"summary"} = {}>>})
DropdownPattern(d, e) ==
  LET ref    == IF Has(e, "aria-controls") THEN e["aria-controls"] ELSE e["aria-owns"]
      popped == ref \notin {"-", "", "gone"} /\ d.popup = "listbox"
  IN NameOf({<<"role", e["role"] # "combobox">>,
             <<"aria-expanded", e["aria-expanded"] \notin Bool>>,
             <<"aria-controls", ~popped>>,
             <<"aria-activedescendant", /\ popped /\ e["aria-expanded"] = "true"
                                        /\ e["aria-activedescendant"] \notin {"-", ""} /\ d.active # "option">>,
             <<"aria-selected", popped /\ \E o \in d.options : ~OneOf(o, "aria-selected", Bool)>>})
ValidatePattern(d, e, pattern) ==
  CASE pattern = "button" -> ButtonPattern(d, e) [] pattern = "input" -> InputPattern(d, e)
    [] pattern = "modal" -> ModalPattern(d, e) [] pattern = "dropdown" -> DropdownPattern(d, e)
ApplyPattern(d, e, pattern) ==
  CASE pattern = "button" -> IF e["tag"] = "button" THEN e ELSE SetIfMissing(SetIfMissing(e, "role", "button"), "tabindex", "0")
    [] pattern = "input" -> IF HasAccessibleLabel(d, e) THEN e ELSE SetIfMissing(e, "aria-label", "")
    [] pattern = "modal" -> SetIfMissing(SetIfMissing(e, "role", "dialog"), "aria-modal", "true")
    [] pattern = "dropdown" ->
         SetIfMissing(SetIfMissing(SetIfMissing(e, "role", "combobox"), "aria-expanded", "false"), "aria-haspopup", "listbox")

----------------------------------------------------------------------------
(* rules/ and engine.ts.  A check answers "pass" or why not, or throws.      *)
Positive(e) == e["tabindex"] \notin {"-", "0", "-1"}
IsDisabled(e) == Has(e, "disabled") \/ e["aria-disabled"] = "true"
IsAriaHidden(e) == e["aria-hidden"] = "true"
NativeTags == {"a", "button", "input", "select", "textarea"}

GenericValues == {"image", "photo", "picture", "img", "graphic", "icon"}
CheckAltText(e) ==
  IF e["tag"] # "img" \/ e["role"] \in {"presentation", "none"} THEN "pass"
  ELSE CASE ~Has(e, "alt") -> "missing"
         [] Has(e, "alt") /\ e["alt"] \in GenericValues -> "generic"
         [] OTHER -> "pass"

ThreeValues == {"aria-valuenow", "aria-valuemin", "aria-valuemax"}
RequiredAttrsByRole ==
  [checkbox |-> {"aria-checked"}, radio |-> {"aria-checked"}, switch |-> {"aria-checked"}, combobox |-> {"aria-expanded"},
   treeitem |-> {"aria-expanded"}, option |-> {"aria-selected"}, meter |-> ThreeValues, slider |-> ThreeValues,
   spinbutton |-> ThreeValues, scrollbar |-> ThreeValues \cup {"aria-controls", "aria-orientation"}]
IsFocusable(e) == \/ e["tag"] = "a" /\ Has(e, "href")
                  \/ e["tag"] \in FormTags /\ ~Has(e, "disabled")
                  \/ e["tag"] = "button"
                  \/ Has(e, "tabindex")
CheckAriaAttrs(e) ==
  CASE Has(e, "aria-labeled") -> "unknown"
    [] ~Has(e, "aria-labeled") /\ IsAriaHidden(e) /\ IsFocusable(e) -> "hidden"
    [] OTHER -> IF e["role"] \in DOMAIN RequiredAttrsByRole /\ \E a \in RequiredAttrsByRole[e["role"]] : ~Has(e, a)
                THEN "required" ELSE "pass"

RuleRoles == {"button", "link", "menuitem", "option", "tab", "treeitem"}
CheckFocusManagement(e) ==
  CASE Positive(e) -> "positive"
    [] e["tabindex"] = "-1" /\ e["tag"] \in NativeTags /\ ~IsAriaHidden(e) /\ ~IsDisabled(e) ->
         IF e["tag"] = "a" /\ ~Has(e, "href") THEN "pass" ELSE "removed"
    [] OTHER -> IF e["role"] \in RuleRoles /\ e["tag"] \notin NativeTags /\ ~Has(e, "tabindex")
                   /\ ~IsAriaHidden(e) /\ ~IsDisabled(e)
                THEN "unreachable" ELSE "pass"
Check(rule, e) == CASE rule = "img-alt" -> CheckAltText(e) [] rule = "aria-required-attr" -> CheckAriaAttrs(e)
                    [] rule = "focus-management" -> CheckFocusManagement(e) [] rule = "custom" -> "throws"

AddRule(rules, r) == rules \cup {r}
RemoveRule(rules, r) == rules \ {r}
\* els[1] is the document element; root 0 is the Document.
CollectNodes(d) == {n \in DOMAIN d.els : n > 1 \/ d.root = 1}
\* A selector never excludes the root; an element list may.
ResolveExclusions(d) == IF d.bySelector THEN d.exclude \ {1} ELSE d.exclude
RunRules(d) ==
  LET rules      == FoldLeft(LAMBDA s, op : IF op[1] = "add" THEN AddRule(s, op[2]) ELSE RemoveRule(s, op[2]), d.config, d.ops)
                      \cup d.extraRules
      asked      == rules \X (CollectNodes(d) \ ResolveExclusions(d))
      Answered(a) == {q \in asked : Check(q[1], d.els[q[2]]) \in a}
  IN [violations |-> Answered({"missing", "generic", "unknown", "hidden", "required", "positive", "removed", "unreachable"}),
      passes |-> Cardinality(Answered({"pass"})), incomplete |-> Cardinality(Answered({"throws"}))]

----------------------------------------------------------------------------
(* runtime.ts                                                                *)
CustomWidgetRoles == RuleRoles \cup {"checkbox", "radio", "combobox", "listbox", "slider", "spinbutton", "switch"}
CheckKeyboardNav(e) ==
  IF IsAriaHidden(e) \/ IsDisabled(e) THEN {}
  ELSE LET native == e["tag"] \in NativeTags \cup {"summary"}
       IN NameOf({<<"positive", Positive(e)>>,
                  <<"unreachable", e["role"] \in CustomWidgetRoles /\ ~native /\ ~Has(e, "tabindex")>>,
                  <<"click", Has(e, "onclick") /\ ~Has(e, "onkeydown") /\ ~native /\ e["role"] \notin CustomWidgetRoles>>})
DetectFocusTrap(d, e) ==
  CASE d.inside = {} \/ d.outside # {} -> "none"
    [] OTHER -> IF e["role"] \in {"dialog", "alertdialog"} \/ e["aria-modal"] = "true" THEN "intentional" ELSE "unintentional"

----------------------------------------------------------------------------
(* testing.ts.  d.els[1] and d.els[2] are in the container; d.label is the   *)
(* label element [text, for, wraps], d.title the text of the element "title".*)
TagsOfRole ==
  [heading |-> {"h1", "h2"}, textbox |-> {"textarea"}, combobox |-> {"select"}, option |-> {"option"}, img |-> {"img"},
   list |-> {"ul", "ol"}, listitem |-> {"li"}, navigation |-> {"nav"}, main |-> {"main"}, banner |-> {"header"},
   contentinfo |-> {"footer"}, complementary |-> {"aside"}, dialog |-> {"dialog"}, row |-> {"tr"},
   rowgroup |-> {"thead", "tbody", "tfoot"}, cell |-> {"td"}, table |-> {"table"}, progressbar |-> {"progress"},
   separator |-> {"hr"}, article |-> {"article"}, definition |-> {"dfn"}, group |-> {"fieldset"}, button |-> {"button"}]
TypesOfRole ==
  [button |-> {"button", "submit", "reset"}, checkbox |-> {"checkbox"}, radio |-> {"radio"}, spinbutton |-> {"number"},
   slider |-> {"range"}, textbox |-> {"-", "text", "email", "search", "url", "tel"}]
Labelled(e) == Has(e, "aria-label") \/ Has(e, "aria-labelledby")
ImplicitRoleSelectors(e, role) ==
  \/ e["role"] = role
  \/ role = "presentation" /\ e["role"] = "none"
  \/ role \in DOMAIN TagsOfRole /\ e["tag"] \in TagsOfRole[role]
  \/ role \in DOMAIN TypesOfRole /\ e["tag"] = "input" /\ e["type"] \in TypesOfRole[role]
  \/ role = "link" /\ e["tag"] = "a" /\ Has(e, "href")
  \/ role = "listbox" /\ e["tag"] = "select" /\ Has(e, "multiple")
  \/ role = "region" /\ e["tag"] = "section" /\ Labelled(e)
  \/ role = "form" /\ e["tag"] = "form" /\ Labelled(e)
  \/ e["tag"] = "th" /\ <<role, e["scope"]>> \in {<<"columnheader", "col">>, <<"rowheader", "row">>}
TableRoles == DOMAIN TagsOfRole \cup DOMAIN TypesOfRole
              \cup {"link", "listbox", "region", "form", "columnheader", "rowheader", "presentation", "tab"}

\* Texts are single words here, so only "" is trimmed away.
GetAccessibleName(d, n) ==
  LET e == d.els[n]
      sources == <<IF "title" \in Ids(e["aria-labelledby"]) THEN d.title ELSE "",
                   IF Has(e, "aria-label") THEN e["aria-label"] ELSE "",
                   IF Has(e, "id") /\ d.label.for = e["id"] THEN "label:" ELSE "",
                   IF n \in d.label.wraps THEN d.label.text ELSE "",
                   IF Has(e, "title") THEN e["title"] ELSE "">>
      at == SelectInSeq(sources, LAMBDA s : s # "")
  IN IF at = 0 THEN d.texts[n] ELSE IF sources[at] = "label:" THEN d.label.text ELSE sources[at]
\* A filter option that is absent is "any".
StateMatches(e, a, wanted) == wanted = "any" \/ (e[a] = "true") = (wanted = "true")
CheckedMatches(d, n, wanted) ==
  wanted = "any" \/ IF Has(d.els[n], "aria-checked") THEN (d.els[n]["aria-checked"] = "true") = (wanted = "true")
                    ELSE d.els[n]["tag"] = "input" /\ (n \in d.checkedEls) = (wanted = "true")
LevelOf(e) == IF e["aria-level"] \notin {"-", ""} THEN e["aria-level"]
              ELSE CASE e["tag"] = "h1" -> "1" [] e["tag"] = "h2" -> "2" [] OTHER -> "none"
QueryAllByRoleRaw(d, role, o) ==
  {n \in DOMAIN d.els : LET e == d.els[n]
     IN /\ IF role \in TableRoles THEN ImplicitRoleSelectors(e, role) ELSE e["role"] = role
        /\ o.hidden \/ ~IsAriaHidden(e)
        /\ o.level = "any" \/ LevelOf(e) = o.level
        /\ o.name = "any" \/ GetAccessibleName(d, n) = o.name
        /\ StateMatches(e, "aria-selected", o.selected) /\ StateMatches(e, "aria-expanded", o.expanded)
        /\ CheckedMatches(d, n, o.checked)
        /\ IF o.pressed = "mixed" THEN e["aria-pressed"] = "mixed" ELSE StateMatches(e, "aria-pressed", o.pressed)}
AnyElement == [hidden |-> TRUE, level |-> "any", name |-> "any", selected |-> "any", expanded |-> "any",
               checked |-> "any", pressed |-> "any"]

QueryAllByLabelTextRaw(d, text) ==
  {n \in DOMAIN d.els : LET e == d.els[n]
     IN \/ e["aria-label"] = text /\ Has(e, "aria-label")
        \/ d.title = text /\ "title" \in Ids(e["aria-labelledby"])
        \/ d.label.text = text /\ \/ Has(e, "id") /\ d.label.for = e["id"]
                                  \/ /\ n \in d.label.wraps /\ e["tag"] \in FormTags
                                     /\ \A k \in d.label.wraps : k < n => d.els[k]["tag"] \notin FormTags}
QueryAllByAltTextRaw(d, text) == {n \in DOMAIN d.els : Has(d.els[n], "alt") /\ d.els[n]["alt"] = text}
QueryAllByTitleRaw(d, text) == {n \in DOMAIN d.els : Has(d.els[n], "title") /\ d.els[n]["title"] = text}

\* An answer is a set of elements; the errors are -1 and -2.
ThrowNotFound == {-1}
ThrowMultipleFound == {-2}
AllOf(found) == IF found = {} THEN ThrowNotFound ELSE found
OnlyOf(found) == CASE found = {} -> ThrowNotFound [] Cardinality(found) > 1 -> ThrowMultipleFound [] OTHER -> found
MaybeOf(found) == IF Cardinality(found) > 1 THEN ThrowMultipleFound ELSE found
GetAllByRole(d, role, o) == AllOf(QueryAllByRoleRaw(d, role, o))
GetByRole(d, role, o) == OnlyOf(QueryAllByRoleRaw(d, role, o))
QueryAllByRole(d, role, o) == QueryAllByRoleRaw(d, role, o)
QueryByRole(d, role, o) == MaybeOf(QueryAllByRoleRaw(d, role, o))
GetAllByLabelText(d, text) == AllOf(QueryAllByLabelTextRaw(d, text))
GetByLabelText(d, text) == OnlyOf(QueryAllByLabelTextRaw(d, text))
QueryByLabelText(d, text) == MaybeOf(QueryAllByLabelTextRaw(d, text))
QueryAllByLabelText(d, text) == QueryAllByLabelTextRaw(d, text)
GetAllByAltText(d, text) == AllOf(QueryAllByAltTextRaw(d, text))
GetByAltText(d, text) == OnlyOf(QueryAllByAltTextRaw(d, text))
QueryByAltText(d, text) == MaybeOf(QueryAllByAltTextRaw(d, text))
QueryAllByAltText(d, text) == QueryAllByAltTextRaw(d, text)
GetAllByTitle(d, text) == AllOf(QueryAllByTitleRaw(d, text))
GetByTitle(d, text) == OnlyOf(QueryAllByTitleRaw(d, text))
QueryByTitle(d, text) == MaybeOf(QueryAllByTitleRaw(d, text))
QueryAllByTitle(d, text) == QueryAllByTitleRaw(d, text)

RoleTokens(value) == CASE value = "-" -> {} [] value = "button tab" -> {"button", "tab"} [] OTHER -> {value}
GetRoles(d) == [role \in TableRoles \cup UNION {RoleTokens(d.els[n]["role"]) : n \in DOMAIN d.els} |->
                 {n \in DOMAIN d.els : \/ role \in TableRoles /\ ImplicitRoleSelectors(d.els[n], role)
                                       \/ role \in RoleTokens(d.els[n]["role"])}]
IsInaccessible(chain) == \E i \in DOMAIN chain : IsAriaHidden(chain[i]) \/ Has(chain[i], "hidden")

GetImplicitRole(e) ==
  CASE e["tag"] = "a" -> IF Has(e, "href") THEN "link" ELSE "-"
    [] e["tag"] = "input" -> LET typed == {r \in {"checkbox", "radio", "slider", "spinbutton", "button"} : e["type"] \in TypesOfRole[r]}
                             IN IF typed = {} THEN "textbox" ELSE CHOOSE r \in typed : TRUE
    [] e["tag"] = "select" -> IF Has(e, "multiple") THEN "listbox" ELSE "combobox"
    [] e["tag"] = "th" -> IF e["scope"] = "row" THEN "rowheader" ELSE "columnheader"
    [] e["tag"] = "form" -> IF Labelled(e) THEN "form" ELSE "-"
    [] e["tag"] = "section" -> IF Labelled(e) THEN "region" ELSE "-"
    [] OTHER -> LET of == {r \in DOMAIN TagsOfRole \ {"option", "rowgroup", "definition"} : e["tag"] \in TagsOfRole[r]}
                IN IF of = {} THEN "-" ELSE CHOOSE r \in of : TRUE
RequiredAriaByRole ==
  [checkbox |-> {"aria-checked"}, radio |-> {"aria-checked"}, slider |-> ThreeValues, spinbutton |-> {"aria-valuenow"},
   scrollbar |-> ThreeValues \cup {"aria-orientation", "aria-controls"}, combobox |-> {"aria-expanded"}, option |-> {"aria-selected"}]
NamedRoles == {"button", "link", "tab", "menuitem", "checkbox", "radio", "combobox", "listbox", "slider", "spinbutton", "textbox",
               "searchbox"}
ToBeAccessible(d, n) ==
  LET e == d.els[n]
      role == IF Has(e, "role") THEN e["role"] ELSE GetImplicitRole(e)
  IN NameOf({<<"required", role \in DOMAIN RequiredAriaByRole /\ \E a \in RequiredAriaByRole[role] : ~Has(e, a)>>,
             <<"alt", e["tag"] = "img" /\ e["role"] \notin {"presentation", "none"} /\ ~Has(e, "alt")>>,
             <<"name", (e["tag"] \in NativeTags \/ role \in NamedRoles) /\ GetAccessibleName(d, n) = "">>})

----------------------------------------------------------------------------
(* lint.ts.  The tags of a source in order; a value "!" is an attribute      *)
(* without one.  d.labelFor: the ids a <label for> names, in comments too.   *)
ValidAriaRoles == TableRoles \cup DOMAIN RequiredAttrsByRole \cup {"alertdialog", "searchbox", "menuitem", "none"}
LintImgAlt(tags) == {n \in DOMAIN tags : tags[n]["tag"] = "img" /\ ~Has(tags[n], "alt")}
LintAriaRole(tags) == {n \in DOMAIN tags : tags[n]["role"] = "!" \/ ~(RoleTokens(tags[n]["role"]) \subseteq ValidAriaRoles)}
LintAriaProps(tags) == {n \in DOMAIN tags : Has(tags[n], "aria-labeled")}
LintButtonType(tags) == {n \in DOMAIN tags : tags[n]["tag"] = "button" /\ ~Has(tags[n], "type")}
LintLabelFor(tags, labelFor) ==
  {n \in DOMAIN tags : /\ tags[n]["tag"] = "input" /\ tags[n]["type"] # "hidden"
                       /\ ~Labelled(tags[n]) /\ tags[n]["id"] \notin labelFor}
Level(tag) == CASE tag = "h1" -> 1 [] tag = "h2" -> 2 [] tag = "h3" -> 3 [] OTHER -> 0
LintHeadingOrder(tags) ==
  LET headings == SelectSeq([n \in DOMAIN tags |-> n], LAMBDA n : Level(tags[n]["tag"]) > 0)
  IN {headings[i] : i \in {k \in 2 .. Len(headings) : Level(tags[headings[k]]["tag"]) > Level(tags[headings[k - 1]]["tag"]) + 1}}
LintTabindexPositive(tags) == {n \in DOMAIN tags : Positive(tags[n]) /\ tags[n]["tabindex"] # "!"}
\* Each diagnostic with its severity, which the configuration may override.
Diag(config, rule, severity, found) == {[rule |-> rule, tag |-> n, severity |-> (config @@ (rule :> severity))[rule]] : n \in found}
Lint(d, config) ==
  UNION {Diag(config, "img-alt", "error", LintImgAlt(d.tags)), Diag(config, "aria-role", "error", LintAriaRole(d.tags)),
         Diag(config, "aria-props", "error", LintAriaProps(d.tags)), Diag(config, "button-type", "warning", LintButtonType(d.tags)),
         Diag(config, "label-for", "warning", LintLabelFor(d.tags, d.labelFor)),
         Diag(config, "heading-order", "warning", LintHeadingOrder(d.tags)),
         Diag(config, "tabindex-positive", "warning", LintTabindexPositive(d.tags))}

----------------------------------------------------------------------------
(* cli.ts.  A path is the sequence of its names; a file has an extension.    *)
RECURSIVE GlobToRegex(_, _)
GlobToRegex(pattern, path) ==
  IF pattern = <<>> THEN path = <<>>
  ELSE CASE pattern[1] = "**/" -> \/ GlobToRegex(Tail(pattern), path)
                                  \/ Len(path) > 1 /\ GlobToRegex(pattern, Tail(path))
         [] pattern[1] = "**" -> path # <<>>
         [] pattern[1] = "*.html" -> path # <<>> /\ path[1] = "page.html" /\ GlobToRegex(Tail(pattern), Tail(path))
         [] OTHER -> path # <<>> /\ path[1] = pattern[1] /\ GlobToRegex(Tail(pattern), Tail(path))
\* Walked from the top; a directory that cannot be read is left out.
CollectFiles(d) ==
  {p \in d.files : /\ \A k \in DOMAIN p : ~\E x \in d.exclude : GlobToRegex(x, SubSeq(p, 1, k))
                   /\ \A k \in 1 .. Len(p) - 1 : SubSeq(p, 1, k) \notin d.unreadable
                   /\ \E i \in d.include : GlobToRegex(i, p)}
IsViolation(level, diagnostic) ==
  CASE level = "info" -> TRUE [] level = "warning" -> diagnostic.severity \in {"error", "warning"}
    [] level = "error" -> diagnostic.severity = "error"
AuditFile(d, p) == LET found == IF p \in d.unreadable THEN {} ELSE Lint(d, <<>>)
                       bad == {g \in found : IsViolation(d.level, g)}
                   IN [file |-> p, violations |-> Cardinality(bad), passes |-> Cardinality(found \ bad)]
BuildReport(results) ==
  LET total == FoldFunction(+, 0, [r \in results |-> r.violations])
  IN [files |-> results, totalViolations |-> total, allPassed |-> total = 0]
AuditDirectory(d) == BuildReport({AuditFile(d, p) : p \in CollectFiles(d)})
GetExitCode(report) == IF report.totalViolations > 0 THEN 1 ELSE 0

----------------------------------------------------------------------------
(* The inputs: markup that exercises each piece of code, one at a time.      *)
Page == [ask |-> "pattern", label |-> "-", popup |-> "listbox", active |-> "option", options |-> {}, inside |-> {"button"}, outside |-> {}]
ButtonInputs ==
  {[pattern |-> "button",
    el |-> El("tag" :> t @@ "role" :> r @@ "tabindex" :> i @@ "aria-pressed" :> p @@ "aria-expanded" :> x)] @@ Page :
     t \in {"button", "div"}, r \in {"-", "button", "link"}, i \in {"-", "1"}, p \in {"-", "mixed", "on"}, x \in {"-", "true", "mixed"}}
InputInputs ==
  {[pattern |-> "input", label |-> f,
    el |-> El("tag" :> "input" @@ "aria-label" :> a @@ "aria-labelledby" :> b @@ "aria-invalid" :> i
              @@ "aria-errormessage" :> m @@ "aria-describedby" :> "both")] @@ Page :
     f \in {"-", "for"}, a \in {"-", ""}, b \in {"-", "title", "both"}, i \in {"-", "true", "on"}, m \in {"-", "title", "gone"}}
ModalInputs ==
  {[pattern |-> "modal", inside |-> n, outside |-> o,
    el |-> El("tag" :> "div" @@ "role" :> r @@ "aria-modal" :> a @@ "aria-labelledby" :> b)] @@ Page :
     n \in {{}, {"summary"}, {"button"}}, o \in {{}, {"a"}}, r \in {"-", "dialog", "button"},
     a \in {"-", "true", "false"}, b \in {"-", "title", "gone"}}
DropdownInputs ==
  {[pattern |-> "dropdown", popup |-> p, active |-> v, options |-> {El("aria-selected" :> s)},
    el |-> El("tag" :> "div" @@ "role" :> r @@ "aria-expanded" :> x @@ "aria-controls" :> c @@ "aria-owns" :> w
              @@ "aria-activedescendant" :> "opt")] @@ Page :
     p \in {"listbox", "menu"}, v \in {"option", "-"}, s \in {"true", "on"}, r \in {"-", "combobox", "button"},
     x \in {"-", "true", "on"}, c \in {"-", "", "list", "gone"}, w \in {"-", "list"}}
Nodes ==
  {El("tag" :> t @@ "role" :> r @@ "tabindex" :> i @@ "aria-hidden" :> h @@ "disabled" :> d @@ "onclick" :> c @@ "href" :> c
      @@ "alt" :> IF c = "-" THEN "photo" ELSE c) :
     t \in {"div", "button", "a", "img", "summary"}, r \in {"-", "button", "slider", "presentation"},
     i \in {"-", "-1", "1"}, h \in {"-", "true"}, d \in {"-", ""}, c \in {"-", "x"}}
Rules == {"img-alt", "aria-required-attr", "focus-management"}
EngineInputs ==
  LET Tree(n) == <<Plain, n, El("tag" :> "img")>>
  IN {[ask |-> "engine", els |-> Tree(n), root |-> 1, config |-> Rules, ops |-> <<>>, extraRules |-> {},
       exclude |-> {}, bySelector |-> TRUE] : n \in Nodes}
     \cup {[ask |-> "engine", els |-> Tree(El("tag" :> "button" @@ "tabindex" :> "1")), root |-> r, config |-> {"img-alt"},
            ops |-> <<<<"add", "custom">>, <<o, "img-alt">>, <<"add", "focus-management">>>>, extraRules |-> e, exclude |-> x,
            bySelector |-> b] :
             r \in {0, 1}, o \in {"add", "remove"}, e \in {{}, {"aria-required-attr"}}, x \in SUBSET {1, 2}, b \in BOOLEAN}
NameInputs ==
  {[ask |-> "query", title |-> "B", texts |-> <<c, "">>, checkedEls |-> {2},
    label |-> [text |-> l, for |-> f, wraps |-> w],
    els |-> <<El("tag" :> t @@ "id" :> "one" @@ "aria-label" :> a @@ "aria-labelledby" :> b @@ "title" :> i),
              El("tag" :> "input" @@ "alt" :> "A")>>] :
     c \in {"", "C"}, l \in {"", "A", "B"}, f \in {"-", "one", "gone"}, w \in {{}, {1}, {2}, {1, 2}}, t \in {"input", "button"},
     a \in {"-", "", "A"}, b \in {"-", "title", "gone", "both"}, i \in {"-", "A"}}
RoleInputs ==
  {[ask |-> "query", title |-> "B", texts |-> <<"C", "D">>, checkedEls |-> {1}, label |-> [text |-> "A", for |-> "-", wraps |-> {}],
    els |-> <<El("tag" :> t @@ "type" :> y @@ "role" :> r @@ a :> "row" @@ "aria-pressed" :> "mixed" @@ "aria-hidden" :> h),
              El("tag" :> "h2" @@ "aria-selected" :> "true")>>] :
     t \in {"input", "button", "a", "select", "th", "section", "form", "h1", "li", "option", "nav", "tr", "dfn"},
     y \in {"-", "checkbox", "number", "password", "reset"}, r \in {"-", "none", "option", "button tab", "searchbox"},
     a \in {"href", "multiple", "scope", "aria-label"}, h \in {"-", "true"}}
Tags == {El("tag" :> "img" @@ "role" :> "none"), El("tag" :> "img" @@ "alt" :> "photo"), El("tag" :> "input" @@ "id" :> "one"),
         El("tag" :> "input" @@ "type" :> "hidden"), El("tag" :> "button" @@ "tabindex" :> "1" @@ "role" :> "!"),
         El("tag" :> "h1"), El("tag" :> "h3"), El("tag" :> "div" @@ "aria-labeled" :> "x" @@ "role" :> "button tab"),
         El("tag" :> "h2" @@ "role" :> "chart" @@ "tabindex" :> "-1")}
Paths == {<<"page.html">>, <<"pages", "page.html">>, <<"dist", "page.html">>, <<"pages", "dist", "page.html">>, <<"pages", "a.ts">>}
AuditInputs ==
  {[ask |-> "audit", tags |-> g, labelFor |-> {"one"}, level |-> v, files |-> Paths, include |-> {<<"**/", "*.html">>},
    exclude |-> x, unreadable |-> u] :
     g \in {<<a>> : a \in Tags} \cup {<<a, b>> : a \in Tags, b \in Tags}, v \in {"error", "warning", "info"}, x \in {{}, {<<"dist", "**">>}},
     u \in {{}, {<<"pages">>}, {<<"page.html">>}}}
AXInit == \/ ax \in ButtonInputs \cup InputInputs \cup ModalInputs \cup DropdownInputs
          \/ ax \in EngineInputs \cup AuditInputs
          \/ ax \in NameInputs \cup RoleInputs

----------------------------------------------------------------------------
(* Properties                                                                *)

\* Applying a pattern changes no attribute the author wrote, raises no issue
\* that was not there, changes nothing the second time, and leaves only what it
\* says it leaves; what it adds satisfies the engine and the runtime checker.
PatternsApplied ==
  ax.ask = "pattern" =>
    LET new    == ApplyPattern(ax, ax.el, ax.pattern)
        before == ValidatePattern(ax, ax.el, ax.pattern)
        after  == ValidatePattern(ax, new, ax.pattern)
    IN /\ \A a \in Attrs : Has(ax.el, a) => new[a] = ax.el[a]
       /\ after \subseteq before
       /\ ApplyPattern(ax, new, ax.pattern) = new
       /\ "role" \in after => Has(ax.el, "role")
       /\ "aria-label" \notin after
       /\ CheckAriaAttrs(ax.el) = "pass" => CheckAriaAttrs(new) = "pass"
       /\ ax.pattern = "button" => "unreachable" \notin CheckKeyboardNav(new) /\ CheckFocusManagement(new) # "unreachable"
       /\ ax.pattern = "modal" /\ after = {} /\ ax.outside = {} => DetectFocusTrap(ax, new) = "intentional"

\* The report counts every pair of a rule and an element once; the engine and
\* the runtime checker agree on an element that is shown and enabled, but for a
\* <summary>, which only the runtime checker takes for a native control.
CheckersAgree ==
  ax.ask = "engine" =>
    LET report == RunRules(ax)
    IN /\ \E rules, nodes \in 0 .. 4 : Cardinality(report.violations) + report.passes + report.incomplete = rules * nodes
       /\ \A v \in report.violations : v[2] \in ax.exclude => v[2] = 1 /\ ax.bySelector
       /\ \A n \in DOMAIN ax.els : LET e == ax.els[n] IN
            ~IsAriaHidden(e) /\ ~IsDisabled(e) /\ e["tag"] # "summary" =>
              /\ CheckFocusManagement(e) \in {"positive", "unreachable"} => CheckFocusManagement(e) \in CheckKeyboardNav(e)
              /\ "positive" \in CheckKeyboardNav(e) => CheckFocusManagement(e) = "positive"

Family(getAll, get, query, queryAll) ==
  /\ queryAll = {} => getAll = ThrowNotFound /\ get = ThrowNotFound /\ query = {}
  /\ queryAll # {} => getAll = queryAll /\ get = query
  /\ query = IF Cardinality(queryAll) > 1 THEN ThrowMultipleFound ELSE queryAll

\* An element named by a label is found by the label's text, the queries of a
\* family differ in how they fail and in nothing else, and the roles listed for
\* a container are the ones its queries answer.
QueriesAgree ==
  ax.ask = "query" =>
    /\ \A text \in {"A", "B"} :
         /\ QueryAllByLabelText(ax, text) \subseteq {n \in DOMAIN ax.els : GetAccessibleName(ax, n) = text \/ Labelled(ax.els[n])
                                                                        \/ ax.label.for = "one" \/ n \in ax.label.wraps}
         /\ \A n \in DOMAIN ax.els :
              (GetAccessibleName(ax, n) = text /\ ~Has(ax.els[n], "title") /\ ax.texts[n] # text
               /\ ax.els[n]["tag"] \in FormTags /\ \A k \in ax.label.wraps : k < n => ax.els[k]["tag"] \notin FormTags)
                => n \in QueryAllByLabelText(ax, text)
         /\ Family(GetAllByLabelText(ax, text), GetByLabelText(ax, text), QueryByLabelText(ax, text), QueryAllByLabelText(ax, text))
         /\ Family(GetAllByAltText(ax, text), GetByAltText(ax, text), QueryByAltText(ax, text), QueryAllByAltText(ax, text))
         /\ Family(GetAllByTitle(ax, text), GetByTitle(ax, text), QueryByTitle(ax, text), QueryAllByTitle(ax, text))
    /\ \A role \in TableRoles :
         /\ GetRoles(ax)[role] \ QueryAllByRole(ax, role, AnyElement) \subseteq {n \in DOMAIN ax.els : ax.els[n]["role"] = "button tab"}
         /\ QueryAllByRole(ax, role, [AnyElement EXCEPT !.hidden = FALSE])
              = {n \in QueryAllByRole(ax, role, AnyElement) : ~IsInaccessible(<<ax.els[n]>>)}
         /\ Family(GetAllByRole(ax, role, AnyElement), GetByRole(ax, role, AnyElement),
                   QueryByRole(ax, role, AnyElement), QueryAllByRole(ax, role, AnyElement))
    /\ \A n \in DOMAIN ax.els : LET e == ax.els[n] IN
         /\ (GetImplicitRole(e) # "-" /\ ~(e["tag"] = "th" /\ e["scope"] = "-") /\ e["type"] # "password")
              => n \in QueryAllByRole(ax, GetImplicitRole(e), AnyElement)
         /\ "required" \in ToBeAccessible(ax, n) /\ Has(e, "role") => CheckAriaAttrs(e) # "pass"
         /\ "alt" \in ToBeAccessible(ax, n) => CheckAltText(e) = "missing"

\* The exit code is 1 exactly when a collected file that could be read has a
\* diagnostic at the level; the linter reports what the engine would.
AuditRight ==
  ax.ask = "audit" =>
    /\ (GetExitCode(AuditDirectory(ax)) = 1)
         = (/\ \E p \in CollectFiles(ax) : p \notin ax.unreadable
            /\ \E g \in Lint(ax, <<>>) : ax.level # "error" \/ g.severity = "error")
    /\ \A p \in CollectFiles(ax) : p[Len(p)] = "page.html" /\ (ax.exclude # {} => p[1] # "dist")
    /\ \A n \in DOMAIN ax.tags : LET Reported(rule) == \E g \in Lint(ax, <<>>) : g.rule = rule /\ g.tag = n
                                     e == ax.tags[n] IN
         /\ CheckAltText(e) = "missing" => Reported("img-alt")
         /\ Reported("aria-props") = (CheckAriaAttrs(e) = "unknown")
         /\ Reported("tabindex-positive") = (CheckFocusManagement(e) = "positive")
         /\ Reported("label-for") => ToBeAccessible([els |-> ax.tags, title |-> "", texts |-> <<"", "">>,
                                                     label |-> [text |-> "", for |-> "-", wraps |-> {}]], n) # {}
=============================================================================
