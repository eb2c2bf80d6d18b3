--------------------------- MODULE ProviderSwitch ---------------------------
(***************************************************************************)
(* Switching the provider of language models.  The setting is changed      *)
(* first, and the new provider is then asked for its health, which         *)
(* suspends; switches may overlap.  The rest of the program makes its      *)
(* provider from the setting as it stands.                                 *)
(***************************************************************************)
EXTENDS Naturals, FiniteSets

CONSTANTS
  Switches,     \* calls of switch_provider
  Providers,
  First,        \* the provider of the settings file
  Incomplete    \* providers whose configuration lacks something: these cannot be made

ProviderAssumption == First \in Providers \ Incomplete /\ Incomplete \subseteq Providers

VARIABLES
  setting,     \* settings.llm_provider
  call,        \* of each call: where it is, the provider it wants and the one before
  completed,   \* metrics["provider_switches"]
  last,        \* history: the provider of the last call that succeeded
  disturbed    \* history: a call began while another was under way, was cancelled, or
               \* named a provider that cannot be made

vars == <<setting, call, completed, last, disturbed>>

Checking == {c \in Switches : call[c].at = "checking"}

Begin(c, p, at) ==
  /\ call[c].at = "new"
  /\ setting' = p
  /\ call' = [call EXCEPT ![c] = [at |-> at, to |-> p, previous |-> setting]]

\* The new provider cannot be made: the setting stays changed.
CannotBeMade(c, p) ==
  /\ p \in Incomplete
  /\ Begin(c, p, "failed")
  /\ disturbed' = TRUE
  /\ UNCHANGED <<completed, last>>

\* With validation, as both routes and the mutation ask: up to the health check.
Switch(c, p) ==
  /\ p \notin Incomplete
  /\ Begin(c, p, "checking")
  /\ disturbed' = (disturbed \/ Checking # {})
  /\ UNCHANGED <<completed, last>>

Healthy(c) ==
  /\ call[c].at = "checking"
  /\ call' = [call EXCEPT ![c].at = "switched"]
  /\ completed' = completed + 1
  /\ last' = call[c].to
  /\ UNCHANGED <<setting, disturbed>>

\* Mutant: the setting is left as it is.
UnhealthyKept(c) ==
  /\ call[c].at = "checking"
  /\ call' = [call EXCEPT ![c].at = "failed"]
  /\ UNCHANGED <<setting, completed, last, disturbed>>

\* The roll-back, to what was there before this call, whatever is there now.
Unhealthy(c) ==
  /\ call[c].at = "checking"
  /\ setting' = call[c].previous
  /\ call' = [call EXCEPT ![c].at = "failed"]
  /\ UNCHANGED <<completed, last, disturbed>>

\* The task is cancelled during the check, which no handler sees: nothing rolls back.
Cancelled(c) ==
  /\ call[c].at = "checking"
  /\ call' = [call EXCEPT ![c].at = "failed"]
  /\ disturbed' = TRUE
  /\ UNCHANGED <<setting, completed, last>>

Init ==
  /\ setting = First
  /\ call = [c \in Switches |-> [at |-> "new", to |-> First, previous |-> First]]
  /\ completed = 0
  /\ last = First
  /\ disturbed = FALSE

Next ==
  \E c \in Switches :
    \/ \E p \in Providers : CannotBeMade(c, p) \/ Switch(c, p)
    \/ Healthy(c) \/ Unhealthy(c) \/ Cancelled(c)

Spec == Init /\ [][Next]_vars

---------------------------------------------------------------------------
(* Properties.                                                             *)

TypeOK ==
  /\ setting \in Providers /\ last \in Providers
  /\ call \in [Switches -> [at : {"new", "checking", "switched", "failed"}, to : Providers, previous : Providers]]
  /\ completed = Cardinality({c \in Switches : call[c].at = "switched"})
  /\ disturbed \in BOOLEAN

\* "Rollback on validation failure": when no switch is under way the provider in use is
\* that of the last call that succeeded, so that a failed one leaves no trace.  It does
\* when calls overlap, when one is cancelled, and when a provider cannot be made.
FailedSwitchLeavesNoTrace == Checking = {} /\ ~disturbed => setting = last

=============================================================================
