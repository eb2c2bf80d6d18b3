---------------------------- MODULE SecurityWatch ----------------------------
(***************************************************************************)
(* What the security logger remembers of failed log-ins: for each client   *)
(* address the failures of the last minutes, the addresses it holds for    *)
(* suspicious and those it blocks, and the latest alerts.  It is told of   *)
(* a failure by the handlers that read tokens and the master key - not by  *)
(* the one that reads API keys - and only with the request at hand.  A     *)
(* list of failures is trimmed when another one is entered, and only then. *)
(***************************************************************************)
EXTENDS Naturals, Sequences, FiniteSets, SequencesExt, Selection

CONSTANTS
  Addresses,
  AlertFrom, SuspectFrom, BlockFrom, \* 5, 10 and 20 failures
  Window,                            \* in 300 seconds
  StatusWindow,                      \* the hour of get_security_status
  KeptAlerts,                        \* 1000
  MaxMoment, MaxRaised               \* bounds: time, and alerts between resets

WatchAssumption ==
  /\ {AlertFrom, SuspectFrom, BlockFrom, Window, KeptAlerts} \subseteq Nat \ {0}
  /\ AlertFrom <= SuspectFrom /\ SuspectFrom < BlockFrom /\ Window <= StatusWindow
  /\ StatusWindow \in Nat /\ MaxMoment \in Nat /\ MaxRaised \in Nat

VARIABLES
  moment,     \* the clock
  failures,   \* failed_attempts: of each address, the times, the oldest first
  suspicious, \* suspicious_ips
  blocked,    \* blocked_ips; nothing asks is_ip_blocked
  alerts,     \* security_alerts: address and severity
  entered,    \* history: per address, all failures since it was last forgiven
  raised      \* history: all alerts since the last reset

vars == <<moment, failures, suspicious, blocked, alerts, entered, raised>>

\* Mutant: old failures are only left out, and stay in the list, so that they count.
UntrimmedWith(a) == Append(failures[a], moment)

\* _track_failed_attempt: the failures of the address within the window, with this one.
TrimmedWith(a) ==
  LET all == Append(failures[a], moment) IN Selected(all, {n \in DOMAIN all : all[n] + Window > moment})

Severity(count) ==
  CASE count >= BlockFrom -> "critical"
    [] count >= SuspectFrom /\ count < BlockFrom -> "high"
    [] count >= AlertFrom /\ count < SuspectFrom -> "medium"
    [] OTHER -> "none"

Latest(s) == IF Len(s) > KeptAlerts THEN SubSeq(s, Len(s) - KeptAlerts + 1, Len(s)) ELSE s

\* authentication_attempt with a failure and a request.  (One without either is only
\* written to the log, as are the other events.)
Fail(a) ==
  /\ Len(raised) < MaxRaised
  /\ failures' = [failures EXCEPT ![a] = TrimmedWith(a)]
  /\ entered' = [entered EXCEPT ![a] = Append(@, moment)]
  /\ LET severity == Severity(Len(failures'[a])) IN
       /\ suspicious' = IF severity = "high" THEN suspicious \cup {a} ELSE suspicious
       /\ blocked' = IF severity = "critical" THEN blocked \cup {a} ELSE blocked
       /\ alerts' = IF severity = "none" THEN alerts ELSE Latest(Append(alerts, <<a, severity>>))
       /\ raised' = IF severity = "none" THEN raised ELSE Append(raised, <<a, severity>>)
  /\ UNCHANGED moment

\* unblock_ip, of a blocked address only.
Unblock(a) ==
  /\ a \in blocked
  /\ blocked' = blocked \ {a}
  /\ suspicious' = suspicious \ {a}
  /\ failures' = [failures EXCEPT ![a] = <<>>]
  /\ entered' = [entered EXCEPT ![a] = <<>>]
  /\ UNCHANGED <<moment, alerts, raised>>

\* reset_security_state.
Reset ==
  /\ failures' = [a \in Addresses |-> <<>>] /\ entered' = failures'
  /\ suspicious' = {} /\ blocked' = {}
  /\ alerts' = <<>> /\ raised' = <<>>
  /\ UNCHANGED moment

Pass ==
  /\ moment < MaxMoment
  /\ moment' = moment + 1
  /\ UNCHANGED <<failures, suspicious, blocked, alerts, entered, raised>>

Init ==
  /\ moment = 0
  /\ failures = [a \in Addresses |-> <<>>] /\ entered = failures
  /\ suspicious = {} /\ blocked = {}
  /\ alerts = <<>> /\ raised = <<>>

Next == (\E a \in Addresses : Fail(a) \/ Unblock(a)) \/ Reset \/ Pass

Spec == Init /\ [][Next]_vars

---------------------------------------------------------------------------
(* get_security_status.                                                    *)

\* failed_attempts_last_hour, of one address: of the list as it was last trimmed.
LastHour(a) == Cardinality({n \in DOMAIN failures[a] : failures[a][n] + StatusWindow > moment})

ActiveThreats == {a \in Addresses : LastHour(a) >= SuspectFrom}

---------------------------------------------------------------------------
(* Properties.                                                             *)

TypeOK ==
  /\ moment \in 0..MaxMoment
  /\ failures \in [Addresses -> Seq(0..moment)]
  /\ suspicious \cup blocked \subseteq Addresses
  /\ Len(alerts) <= KeptAlerts

\* So many failures of the address, since it was last forgiven, lay within one window.
Together(a, count) ==
  \E n \in DOMAIN entered[a] : n >= count /\ entered[a][n] < entered[a][n + 1 - count] + Window

\* The watch misses nobody and accuses nobody wrongly, however failures of different
\* addresses, pauses, pardons and resets follow one another: an address is suspicious, or
\* blocked, exactly if so many of its failures ever lay within one window; whoever is
\* blocked is suspicious; the status calls nobody an active threat who is not held for
\* suspicious and counts no failure that did not happen; the alerts kept are the latest.
WatchExact ==
  /\ suspicious = {a \in Addresses : Together(a, SuspectFrom)}
  /\ blocked = {a \in Addresses : Together(a, BlockFrom)}
  /\ blocked \cup ActiveThreats \subseteq suspicious
  /\ \A a \in Addresses : LastHour(a) <= Cardinality({n \in DOMAIN entered[a] : entered[a][n] + StatusWindow > moment})
  /\ IsSuffix(alerts, raised) /\ Len(alerts) = (IF Len(raised) > KeptAlerts THEN KeptAlerts ELSE Len(raised))

=============================================================================
