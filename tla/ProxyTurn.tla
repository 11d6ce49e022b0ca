----------------------------- MODULE ProxyTurn -----------------------------
(***************************************************************************)
(* What a turn of either proxy has: the CLI and what it has been told, the *)
(* terminal report, and the stage at which a host may repair a request its *)
(* provider rejected (lib/proxy/request-hook.js).  Turns share no state,   *)
(* so a module of one turn is enough (ClaudeTurn, CodexTurn).              *)
(***************************************************************************)
EXTENDS Naturals

CONSTANTS
  RetryMax,   \* hookRetryMax
  None

VARIABLES
  hook,       \* whether the host installed onUpstreamRejected
  repairs,    \* of the request stage
  client,     \* gone once 'close' of the response has fired
  answer,     \* what was written downstream
  outcome     \* the terminal report, or None

\* stage.repair asks the host only within its budget.
MayRepair == hook /\ repairs < RetryMax

=============================================================================
