-------------------------------- MODULE I18n --------------------------------
(* packages/vais-web/packages/i18n/src: prefixed paths, the locale of a      *)
(* request, messages with their fallback, and bundles cut down to the keys   *)
(* in use; one input (tq) at a time.                                         *)
EXTENDS Integers, Sequences, FiniteSets, SequencesExt

CONSTANTS Words   \* segments that are no locale

VARIABLE tq

Locales == <<"en", "ko">>
Default == "en"

----------------------------------------------------------------------------
(* router.ts.  A path is the segments after its slashes; "/" has one, empty. *)
Root == <<"">>
NormalisePath(p) == IF Len(p) > 1 /\ Last(p) = "" THEN Front(p) ELSE p
HasLocalePrefix(p, l) == Head(NormalisePath(p)) = l
AddLocalePrefix(p, l) == IF NormalisePath(p) = Root THEN <<l>> ELSE <<l>> \o NormalisePath(p)
NoPrefix == [locale |-> "none", path |-> Root]
RemoveLocalePrefix(p) ==
  LET norm == NormalisePath(p)
  IN IF Head(norm) \notin ToSet(Locales) THEN NoPrefix
     ELSE [locale |-> Head(norm), path |-> IF Len(norm) = 1 THEN Root ELSE Tail(norm)]
DetectLocale(p) == LET r == RemoveLocalePrefix(p) IN IF r = NoPrefix THEN Default ELSE r.locale
\* The path itself when no redirect is needed.
LocaleRedirect(p, l) == IF RemoveLocalePrefix(p) # NoPrefix THEN p ELSE AddLocalePrefix(NormalisePath(p), l)
SwitchLocale(p, l) ==
  LET r == RemoveLocalePrefix(p) IN AddLocalePrefix(IF r = NoPrefix THEN NormalisePath(p) ELSE r.path, l)
LocaleRoutes(p) == [i \in DOMAIN Locales |-> [path |-> AddLocalePrefix(p, Locales[i]), locale |-> Locales[i]]]

----------------------------------------------------------------------------
(* ssr.ts.  A language tag is a language and a region, "" for none; an entry *)
(* of the header has one and its quality.                                    *)
Tag(lang, region) == [lang |-> lang, region |-> region]
ParseAcceptLanguage(header) == SortSeq(header, LAMBDA a, b : a.quality > b.quality)
FirstIn(seq, wanted) == LET at == {i \in DOMAIN seq : seq[i] \in wanted} IN seq[CHOOSE i \in at : \A j \in at : i <= j]
MatchesOf(tag, supported) ==
  LET s == ToSet(supported)
      prefix == {t \in s : t.lang = tag.lang /\ t.region # ""}
  IN CASE tag \in s -> {tag}
       [] tag \notin s /\ Tag(tag.lang, "") \in s -> {Tag(tag.lang, "")}
       [] OTHER -> prefix
BestMatch(entries, supported, default) ==
  LET good == SelectSeq(entries, LAMBDA e : MatchesOf(e.tag, supported) # {})
  IN IF good = <<>> THEN default ELSE FirstIn(supported, MatchesOf(Head(good).tag, supported))
\* cookie: a tag, or a region no locale has when there is none.
ServerLocale(header, cookie, supported, default) ==
  LET matched == BestMatch(ParseAcceptLanguage(header), supported, default)
  IN CASE cookie \in ToSet(supported) -> [locale |-> cookie, from |-> "cookie"]
       [] cookie \notin ToSet(supported) /\ matched # default -> [locale |-> matched, from |-> "header"]
       [] OTHER -> [locale |-> default, from |-> "default"]

----------------------------------------------------------------------------
(* messages.ts, translate.ts.  A bundle maps names to texts, plurals or      *)
(* branches; a key is a sequence of names.                                   *)
Names == {"a", "b"}
Text(t) == [type |-> "text", text |-> t]
Plural(zero) == [type |-> "plural", zero |-> zero]
Branch(names) == [type |-> "branch", names |-> names]
Undefined == [type |-> "undefined"]
Keys == {<<n>> : n \in Names} \cup {<<n, "c">> : n \in Names}
ResolveKey(bundle, key) ==
  LET top == IF key[1] \in DOMAIN bundle THEN bundle[key[1]] ELSE Undefined
  IN CASE Len(key) = 1 -> top
       [] Len(key) > 1 /\ top.type = "branch" -> IF key[2] \in top.names THEN Text("inner") ELSE Undefined
       [] OTHER -> Undefined
FlattenBundle(bundle) ==
  {<<n>> : n \in {m \in DOMAIN bundle : bundle[m].type \in {"text", "plural"}}}
    \cup UNION {{<<n, c>> : c \in bundle[n].names} : n \in {m \in DOMAIN bundle : bundle[m].type = "branch"}}
SelectPlural(zero, count) == CASE count = 0 /\ zero -> "zero" [] count = 1 -> "one" [] OTHER -> "other"
NoCount == -1
Raw(key) == <<"key", key>>
TranslateValue(value, key, count) ==
  CASE value.type = "text" -> IF value.text = "own" THEN Raw(key) ELSE <<"text", value.text>>
    [] value.type = "plural" -> <<"form", SelectPlural(value.zero, IF count = NoCount THEN 1 ELSE count)>>
    [] OTHER -> Raw(key)
\* The last resort is the key.  A text that is its own key counts as none.
Translate(messages, locale, fallback, key, count) ==
  LET Of(l) == IF l \in DOMAIN messages THEN TranslateValue(ResolveKey(messages[l], key), key, count) ELSE Raw(key)
  IN IF Of(locale) # Raw(key) \/ fallback \in {"none", locale} THEN Of(locale) ELSE Of(fallback)

(* tree-shake.ts *)
PruneBundle(bundle, used) ==
  LET kept == used \cap FlattenBundle(bundle)
  IN [n \in {k[1] : k \in kept} |-> IF <<n>> \in kept THEN bundle[n] ELSE Branch({k[2] : k \in {x \in kept : x[1] = n}})]
TreeShake(messages, locales, used) ==
  [l \in (locales \cup {Default}) \cap DOMAIN messages |->
     IF used = {} THEN messages[l] ELSE PruneBundle(messages[l], used)]

----------------------------------------------------------------------------
Bundles ==
  UNION {[ns -> {Text("own"), Text("t"), Plural(TRUE), Branch({}), Branch({"c"})}] : ns \in SUBSET Names}
Segments == Words \cup ToSet(Locales) \cup {""}
Tags == {Tag("en", ""), Tag("en", "US"), Tag("ko", "KR"), Tag("fr", "")}
TQInit ==
  \/ \E p \in UNION {[1 .. n -> Segments] : n \in 1 .. 4} : tq = [ask |-> "path", path |-> p]
  \/ \E s \in {<<a, b>> : a, b \in Tags}, h \in UNION {[1 .. n -> [tag : Tags, quality : 0 .. 1]] : n \in 0 .. 2}, c \in Tags :
       tq = [ask |-> "request", supported |-> s, header |-> h, cookie |-> c]
  \/ \E en \in Bundles, ko \in Bundles, f \in {"none", "en", "ko"} :
       tq = [ask |-> "message", messages |-> [l \in {"en", "ko"} |-> IF l = "en" THEN en ELSE ko], fallback |-> f]

\* A prefix comes off as it went on, whatever the path (a path with several
\* slashes at its end loses one each time); a switched path is in the locale
\* asked for, however often it is switched; one redirect is enough, and every
\* generated route leads to its locale (router.ts:51, :138, :162).
PathsAgree ==
  LET p == tq.path  norm == NormalisePath(p)
  IN /\ \A l \in ToSet(Locales) :
          /\ NormalisePath(norm) = norm => RemoveLocalePrefix(AddLocalePrefix(p, l)) = [locale |-> l, path |-> norm]
          /\ HasLocalePrefix(SwitchLocale(p, l), l) /\ DetectLocale(SwitchLocale(p, l)) = l
          /\ NormalisePath(norm) = norm => \A k \in ToSet(Locales) : SwitchLocale(SwitchLocale(p, k), l) = SwitchLocale(p, l)
          /\ LocaleRedirect(LocaleRedirect(p, l), Default) = LocaleRedirect(p, l)
          /\ DetectLocale(LocaleRedirect(p, l)) = IF RemoveLocalePrefix(p) = NoPrefix THEN l ELSE DetectLocale(p)
     /\ \A i \in DOMAIN Locales : HasLocalePrefix(LocaleRoutes(p)[i].path, LocaleRoutes(p)[i].locale)

\* The locale of a request is a supported one, the cookie's if it can be; no
\* entry of the header that names a supported language is passed over for one
\* of lower quality (ssr.ts:74, :125).
RequestLocaleRight ==
  LET s == tq.supported  default == s[1]
      r == ServerLocale(tq.header, tq.cookie, s, default)
      Speaks(e) == \E t \in ToSet(s) : t.lang = e.tag.lang /\ (t.region = "" \/ t = e.tag \/ \A u \in ToSet(s) : u.region # "" \/ u.lang # t.lang)
      heard == {e \in ToSet(tq.header) : Speaks(e)}
  IN /\ r.locale \in ToSet(s)
     /\ tq.cookie \in ToSet(s) <=> r.from = "cookie"
     /\ r.from = "cookie" => r.locale = tq.cookie
     /\ r.from = "header" => \E e \in heard : e.tag.lang = r.locale.lang /\ \A f \in heard : f.quality <= e.quality
     /\ r.from = "default" /\ heard # {} => \E e \in heard : e.tag.lang = default.lang /\ \A f \in heard : f.quality <= e.quality

\* Cutting the bundles down to the locales and keys in use changes no
\* translation in them, provided the fallback locale is among them, and the
\* flat keys are those that resolve to a message (tree-shake.ts:125,
\* messages.ts:124).
ShakenAlike ==
  LET m == tq.messages
  IN /\ \A l \in DOMAIN m, k \in Keys : k \in FlattenBundle(m[l]) <=> ResolveKey(m[l], k).type \in {"text", "plural"}
     /\ \A used \in SUBSET Keys, locales \in SUBSET {"ko"} :
          LET kept == TreeShake(m, locales, used)
          IN tq.fallback \in DOMAIN kept \cup {"none"} =>
               \A l \in DOMAIN kept, k \in used, count \in {NoCount, 0} :
                 Translate(kept, l, tq.fallback, k, count) = Translate(m, l, tq.fallback, k, count)

TextsRight ==
  CASE tq.ask = "path" -> PathsAgree
    [] tq.ask = "request" -> RequestLocaleRight
    [] tq.ask = "message" -> ShakenAlike
    [] OTHER -> TRUE
=============================================================================
