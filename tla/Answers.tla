-------------------------------- MODULE Answers --------------------------------
(***************************************************************************)
(* What the pure functions answer: the country of an address, by the table  *)
(* that gen-geodata builds from delegation files, and which of two versions *)
(* is newer, by which the update offers itself.                             *)
(***************************************************************************)
EXTENDS GeoIP, Releases

CONSTANTS Files,        \* what the delegation files may hold: finite sets of records
          VersionTexts  \* versions

ASSUME AnswersAssumption ==
    /\ \A F \in Files : IsFiniteSet(F) /\ F \subseteq RecordType
    /\ VersionTexts \subseteq Seq(Nat \union {NotANumber})

VARIABLES question, answer
answersVars == <<question, answer>>

Unanswered == [open |-> TRUE]

Covers(rec, typ, a) == Kept(rec, typ) /\ rec.start <= a /\ a < rec.start + Count(rec)
\* The registries delegate nothing that reaches the last address,
Fit(rec) == \A typ \in Families : Kept(rec, typ) => rec.start + Count(rec) < Space(typ)
\* and no address to two countries.
Disjoint(p, q) ==
    p.cc = q.cc \/ \A typ \in Families : \A a \in Addresses(typ) :
                       ~(Covers(p, typ, a) /\ Covers(q, typ, a))
Sound(F) == \A p, q \in F : Fit(p) /\ Disjoint(p, q)

Questions == [of : {"files"}, records : {F \in Files : Sound(F)}]
                \union [of : {"versions"}, newer : VersionTexts, than : VersionTexts]

AnswersInit == question \in Questions /\ answer = Unanswered
\* main, of the generator.
Tabulate ==
    /\ answer = Unanswered /\ question.of = "files"
    /\ answer' = [table |-> buildGeoIP(question.records)]
    /\ UNCHANGED question
\* Check, of the update.
Compare ==
    /\ answer = Unanswered /\ question.of = "versions"
    /\ answer' = [is |-> VersionNewer(question.newer, question.than)]
    /\ UNCHANGED question
AnswersNext == Tabulate \/ Compare
AnswersSpec == AnswersInit /\ [][AnswersNext]_answersVars

\* The table answers for every address with the country of the record that
\* covers it, and with no country where none does; records of two countries
\* never overlap.
LookupFaithful ==
    question.of = "files" /\ answer # Unanswered =>
        \A typ \in Families : \A a \in Addresses(typ) :
            LET owners == {rec \in question.records : Covers(rec, typ, a)}
                cc == Country(answer.table, typ, a)
            IN  /\ owners = {} => cc = NoCountry
                /\ \A rec \in owners : cc = rec.cc

\* VersionNewer is a strict order in which a missing part counts as zero: no
\* two releases are newer than each other, and nothing in between breaks it.
VersionsOrdered ==
    question.of = "versions" /\ answer # Unanswered =>
        LET a == question.newer
            b == question.than
        IN  /\ answer.is => ~VersionNewer(b, a)
            /\ \A c \in VersionTexts : answer.is => VersionNewer(a, c) \/ VersionNewer(c, b)
            /\ VersionNewer(a \o <<0>>, b) <=> answer.is

\* The country table and VersionNewer answer as their references do.
AnswersRight == LookupFaithful /\ VersionsOrdered
=============================================================================
