----------------------------- MODULE VersionDoc -----------------------------
(***************************************************************************)
(* A version document and what is made of it for one platform              *)
(* (src/internal/mojang/version.go, rules.go, launch.go).  A pointer is a  *)
(* sequence of at most one.  A text of an argument is the sequence of its  *)
(* parts, each a literal or the name of a placeholder.                     *)
(***************************************************************************)
EXTENDS Integers, Sequences, SequencesExt

CONSTANTS
    MatchesEmpty,   \* the OS version patterns that match the empty text
    JarOf,          \* JarOf[id] is the path built from a version id
    Features        \* the features a rule may name

\* What a document decodes to; of a Download the path is enough.
OSConditions == [name : STRING, arch : STRING, version : STRING]
Rules == [action : STRING, os : Seq(OSConditions),
          features : UNION {[asked -> BOOLEAN] : asked \in SUBSET Features}]
Downloads == [path : STRING]
Libraries == [artifact : Seq(Downloads), rules : Seq(Rules)]
Arguments == [shape : STRING, rules : Seq(Rules), texts : Seq(Seq(STRING))]
Versions == [id : STRING, mainClass : STRING, major : Int,
             client : Seq(Downloads), libraries : Seq(Libraries),
             jvm : Seq(Arguments), game : Seq(Arguments)]

LinuxAMD64 == [os |-> "linux", arch |-> "x86_64", features |-> {}]

-----------------------------------------------------------------------------
(* Rules.                                                                  *)

\* The platform has no version, so a pattern has to match the empty text;
\* a feature that is not in its map is off.
Matches(p, rule) ==
    /\ \A i \in DOMAIN rule.os :
          /\ rule.os[i].name \in {"", p.os}
          /\ rule.os[i].arch \in {"", p.arch}
          /\ rule.os[i].version = "" \/ rule.os[i].version \in MatchesEmpty
    /\ \A f \in DOMAIN rule.features : (f \in p.features) = rule.features[f]

\* Mutation: the first rule that matches ends the loop.
AllowsFirst(p, rules) ==
    LET hits == SelectSeq(rules, LAMBDA rule : Matches(p, rule))
    IN  rules = <<>> \/ (hits # <<>> /\ Head(hits).action = "allow")

\* allowed[i] is the variable of the loop after i rules.
Allows(p, rules) ==
    LET allowed[i \in 0..Len(rules)] ==
          CASE i = 0 -> FALSE
            [] i > 0 /\ Matches(p, rules[i]) -> rules[i].action = "allow"
            [] OTHER -> allowed[i - 1]
    IN  rules = <<>> \/ allowed[Len(rules)]

\* What the comment of Allows says (rules.go:35): an empty set allows, the
\* default is deny, the last rule that matches wins.
LastMatchWins(p, rules) ==
    \/ rules = <<>>
    \/ \E i \in DOMAIN rules :
          /\ Matches(p, rules[i])
          /\ rules[i].action = "allow"
          /\ \A j \in (i + 1)..Len(rules) : ~Matches(p, rules[j])

-----------------------------------------------------------------------------
(* Libraries, arguments, and the specification of a launch.                *)

\* A library without an artifact of its own, one of natives only, is passed
\* over.
SelectLibraries(doc, p) ==
    FlattenSeq([i \in DOMAIN doc.libraries |->
        IF Allows(p, doc.libraries[i].rules)
        THEN doc.libraries[i].artifact
        ELSE <<>>])

ClientJarPath(id, client) == IF client.path # "" THEN client.path ELSE JarOf[id]

\* UnmarshalJSON: a string, or rules with a string or a list of strings.
\* Anything else fails the document.
Decodes(arguments) == \A i \in DOMAIN arguments : arguments[i].shape # "other"
DecodeArgument(a) ==
    [rules |-> IF a.shape = "string" THEN <<>> ELSE a.rules, values |-> a.texts]

\* The placeholders of a text are replaced in one pass: what a value brings
\* in is not looked at again.
Substitute(text, vars) ==
    FlattenSeq([i \in DOMAIN text |->
        IF text[i] \in DOMAIN vars THEN vars[text[i]] ELSE <<text[i]>>])

SubstituteAll(texts, vars) == [i \in DOMAIN texts |-> Substitute(texts[i], vars)]

\* Mutation: the templates are filled here, where there is no account yet.
SelectArgsFilled(arguments, p) ==
    LET none == [auth_player_name |-> <<>>, auth_uuid |-> <<>>]
    IN  FlattenSeq([i \in DOMAIN arguments |->
            LET a == DecodeArgument(arguments[i])
            IN  IF Allows(p, a.rules) THEN SubstituteAll(a.values, none)
                ELSE <<>>])

\* The argument templates that apply, their placeholders left alone.
SelectArgs(arguments, p) ==
    FlattenSeq([i \in DOMAIN arguments |->
        LET a == DecodeArgument(arguments[i])
        IN  IF Allows(p, a.rules) THEN a.values ELSE <<>>])

\* Version.Resolve of a document that has a main class and a client.
Resolve(doc, p) ==
    LET libraries == SelectLibraries(doc, p)
    IN  [mainClass |-> doc.mainClass,
         classpath |-> Append([i \in DOMAIN libraries |-> libraries[i].path],
                              ClientJarPath(doc.id, doc.client[1])),
         jvm |-> SelectArgs(doc.jvm, p),
         game |-> SelectArgs(doc.game, p)]
=============================================================================
