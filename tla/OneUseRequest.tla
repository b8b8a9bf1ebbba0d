---------------------------- MODULE OneUseRequest ----------------------------
(***************************************************************************)
(* What the trusted evaluator promises of a request, whatever crashes: its  *)
(* hidden tasks run at most once, it ends in one signed result or in a      *)
(* consumed failure, that end never changes, and every answer is the        *)
(* result it ended in.                                                      *)
(***************************************************************************)
EXTENDS Naturals

CONSTANTS None, Envelopes

VARIABLES
    phase,    \* "new", "claimed", "completed" or "consumed"
    runs,     \* how often the hidden tasks were run
    result,   \* the result of a completed request, or None
    answers   \* the results callers received

promised == <<phase, runs, result, answers>>

RequestInit == phase = "new" /\ runs = 0 /\ result = None /\ answers = {}

ClaimRequest == /\ phase = "new"
                /\ phase' = "claimed"
                /\ UNCHANGED <<runs, result, answers>>

RunTasks == /\ phase = "claimed"
            /\ runs = 0
            /\ runs' = 1
            /\ UNCHANGED <<phase, result, answers>>

CompleteRequest == /\ phase = "claimed"
                   /\ runs = 1
                   /\ phase' = "completed"
                   /\ result' \in Envelopes
                   /\ UNCHANGED <<runs, answers>>

FailRequest == /\ phase = "claimed"
               /\ phase' = "consumed"
               /\ UNCHANGED <<runs, result, answers>>

AnswerRequest == /\ phase = "completed"
                 /\ answers' = answers \cup {result}
                 /\ UNCHANGED <<phase, runs, result>>

RequestNext == \/ ClaimRequest \/ RunTasks \/ CompleteRequest
               \/ FailRequest \/ AnswerRequest

RequestSpec == RequestInit /\ [][RequestNext]_promised
=============================================================================
