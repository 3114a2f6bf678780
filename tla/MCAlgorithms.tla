---------------------------- MODULE MCAlgorithms ----------------------------
(* The pure functions on small instances: QRCode and Answers in one run.    *)
EXTENDS QRCode, Answers

Sample(n) == [i \in 1 .. n |-> (7 * i + 33) % 256]
Endless == Sample(capacity(20) + 1)
MCPayloads == {Sample(n) : n \in {0, 18, 135}} \union {Sample(capacity(v)) : v \in Versions}
                \union {Endless}

MCWidth == [typ \in Families |-> 3]

\* Records of two countries over the whole address space, of both families.
MCRecords ==
    [cc : {"DE", "NL"}, typ : {"ipv4"}, start : {0, 1, 2, 5, 7}, value : 1 .. 3, status : {"allocated"}]
    \union [cc : {"DE", "NL"}, typ : {"ipv6"}, start : {0, 4}, value : {1, 2, 3}, status : {"assigned"}]
    \union [cc : {"NL"}, typ : {"ipv4"}, start : {4}, value : {0, 2}, status : {"reserved", "allocated"}]
Fitting == {rec \in MCRecords : Fit(rec)}
MCFiles == {{p, q, r} : p \in Fitting, q \in Fitting, r \in Fitting}

MCParts == {NotANumber, 0, 1, 10}
MCVersionTexts == UNION {[1 .. n -> MCParts] : n \in 0 .. 2}

\* The two share no state: a run encodes one payload, or asks one question once
\* the longest payload is refused.
Plain == [of |-> "versions", newer |-> <<>>, than |-> <<>>]
AlgorithmsInit ==
    \/ Init /\ question = Plain /\ answer = Unanswered
    \/ Init /\ payload = Endless /\ AnswersInit
AlgorithmsNext ==
    \/ Next /\ UNCHANGED answersVars
    \/ pc = "too long" /\ AnswersNext /\ UNCHANGED vars
AlgorithmsSpec == AlgorithmsInit /\ [][AlgorithmsNext]_<<vars, answersVars>>
=============================================================================
