------------------------------ MODULE VoteRules ------------------------------
(* How VotesService turns the responses of a vote into a decision. *)
EXTENDS Integers, FiniteSets

Choices == {"FOR", "AGAINST", "ABSTAIN"}
Decisions == {"APPROVED", "REJECTED", "INVALID"}

\* The members of `responses` (member -> choice, or "NONE") who answered c.
Answered(responses, c) == {m \in DOMAIN responses : responses[m] = c}

\* The decision on `responses`: quorum counts every response, the approval
\* ratio only the decisive ones, and is 0 when there are none.
Decision(responses, minQuorum, threshold) ==
    LET for == Cardinality(Answered(responses, "FOR"))
        decisive == for + Cardinality(Answered(responses, "AGAINST"))
        total == decisive + Cardinality(Answered(responses, "ABSTAIN"))
        approved == IF decisive = 0 THEN threshold = 0
                                    ELSE 100 * for >= threshold * decisive
    IN  IF total < minQuorum THEN "INVALID"
        ELSE IF approved THEN "APPROVED" ELSE "REJECTED"
==============================================================================
