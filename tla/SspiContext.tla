---------------------------- MODULE SspiContext ----------------------------
(***************************************************************************)
(* One Windows SSPI security context (src/src/auth.rs): the credential and *)
(* context handles it owns and the flags that track them.  SSPI itself is  *)
(* external: a call returns any status its interface allows.               *)
(*                                                                         *)
(* The definitions are operations for AuthExchange to take part in: each   *)
(* says how one call changes the variables of this module.                 *)
(***************************************************************************)
EXTENDS Naturals

VARIABLES
    created,      \* the SspiContext exists
    has_context,  \* its fields
    complete,
    credentials,  \* SSPI: live credential handles
    contexts,     \* SSPI: live context handles
    finished      \* SSPI: the context in use needs no further call

sspiVars == <<created, has_context, complete, credentials, contexts, finished>>

\* The results of InitializeSecurityContextW.
Accepted == {"ok", "continue", "complete_needed", "complete_and_continue"}
Statuses == Accepted \union {"refused"}

\* The statuses after which no more tokens are to be exchanged.
Final == {"ok", "complete_needed"}

SspiInit ==
    /\ created = FALSE
    /\ has_context = FALSE
    /\ complete = FALSE
    /\ credentials = 0
    /\ contexts = 0
    /\ finished = FALSE

\* SspiContext::new, when AcquireCredentialsHandleW succeeds.
SspiNew ==
    /\ created' = TRUE
    /\ has_context' = FALSE
    /\ complete' = FALSE
    /\ credentials' = credentials + 1
    /\ finished' = FALSE
    /\ UNCHANGED contexts

\* Whether step returns a token: CompleteAuthToken and FreeContextBuffer may
\* fail, too.
StepSucceeds(status, completes, frees) ==
    /\ status \in Accepted
    /\ status \in {"complete_needed", "complete_and_continue"} => completes
    /\ frees

\* Mistake: the handle is recorded only once the context is finished.
StepRecordsFinal(status, completes, frees) ==
    /\ ~complete
    /\ contexts' = IF status \in Accepted /\ ~has_context
                   THEN contexts + 1 ELSE contexts
    /\ has_context' = (has_context \/ status \in Final)
    /\ finished' = (finished \/ status \in Final)
    /\ complete' = (StepSucceeds(status, completes, frees) /\ status \in Final)
    /\ UNCHANGED <<created, credentials>>

\* Mistake: only SEC_E_OK counts as complete.
StepForgetsCompleteNeeded(status, completes, frees) ==
    /\ ~complete
    /\ contexts' = IF status \in Accepted /\ ~has_context
                   THEN contexts + 1 ELSE contexts
    /\ has_context' = (has_context \/ status \in Accepted)
    /\ finished' = (finished \/ status \in Final)
    /\ complete' = (StepSucceeds(status, completes, frees) /\ status = "ok")
    /\ UNCHANGED <<created, credentials>>

\* step, past its check of `complete`.  An error returns before `complete`
\* is assigned; it is FALSE then.
SspiStep(status, completes, frees) ==
    /\ ~complete
    /\ contexts' = IF status \in Accepted /\ ~has_context
                   THEN contexts + 1 ELSE contexts
    /\ has_context' = (has_context \/ status \in Accepted)
    /\ finished' = (finished \/ status \in Final)
    /\ complete' = (StepSucceeds(status, completes, frees) /\ status \in Final)
    /\ UNCHANGED <<created, credentials>>

\* drop, if there is something to drop.
SspiDrop ==
    IF created
    THEN /\ created' = FALSE
         /\ contexts' = contexts - (IF has_context THEN 1 ELSE 0)
         /\ credentials' = credentials - 1
         /\ UNCHANGED <<has_context, complete, finished>>
    ELSE UNCHANGED sspiVars

\* The variables have their types: one context at most, and its handles.
SspiTypeOK ==
    /\ created \in BOOLEAN
    /\ has_context \in BOOLEAN
    /\ complete \in BOOLEAN
    /\ credentials \in 0..1
    /\ contexts \in 0..1
    /\ finished \in BOOLEAN

=============================================================================
