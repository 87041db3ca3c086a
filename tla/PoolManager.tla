---------------------------- MODULE PoolManager ----------------------------
(***************************************************************************)
(* The page of connected accounts (PoolManager.tsx).  Adding an account    *)
(* opens a popup and then polls the list of accounts every three seconds,  *)
(* for two minutes, until it is longer than it was.  The dialog keeps one  *)
(* reference to an interval and one to a timeout; nothing stops a second   *)
(* try from replacing them, or a try from setting them after the dialog    *)
(* is gone.  A dialog that was closed stays on the page, as it is, until   *)
(* it has faded out, and is the one that opens if it is opened again by    *)
(* then.  A list is read by the server when it is asked for and handled by *)
(* the page when its answer arrives.                                       *)
(***************************************************************************)
EXTENDS Integers, FiniteSets

CONSTANTS
    MaxTries,   \* bound: how often a provider is picked
    MaxMounts,  \* bound: how often the dialog is opened
    MaxPool,    \* bound: accounts ever added
    MaxPolls    \* bound: polls in flight at once

ASSUME PoolBounds == MaxTries \in Nat /\ MaxMounts \in Nat

VARIABLES
    pool,       \* how many accounts the server has
    added,      \* how many were ever added
    dialog,     \* the dialog: "open", "leaving" or "gone", which mount of it,
                \* its phase
    nTries,     \* tries so far
    tries,      \* tries[i]: the i-th pick of a provider, see NoTry
    latest,     \* latest[m]: the try whose timers mount m's refs hold, or 0
    asked,      \* polls in flight: the try that asked, the count it will get
    doubled     \* history: mounts in which two tries were under way at once

poolVars == <<pool, added, dialog, nTries, tries, latest, asked, doubled>>

Tries == 1 .. MaxTries
Mounts == 1 .. MaxMounts

(* pc: what the try awaits; ticking, armed: its interval and timeout are   *)
(* set; base: the count it started from; late: history, its timers were    *)
(* set after its dialog closed; at: history, `added` when the base was    *)
(* read; told: history, `added` when its success was first announced       *)
NoTry == [mount |-> 0, pc |-> "none", ticking |-> FALSE, armed |-> FALSE,
          base |-> 0, late |-> FALSE, at |-> 0, told |-> -1]

PInit ==
    /\ pool = 0 /\ added = 0
    /\ dialog = [shown |-> "gone", mount |-> 0, phase |-> "pick"]
    /\ nTries = 0 /\ tries = [i \in Tries |-> NoTry]
    /\ latest = [m \in Mounts |-> 0]
    /\ asked = {} /\ doubled = {}

InDialog(m) == dialog.shown # "gone" /\ dialog.mount = m
UnderWay(i) == tries[i].pc \in {"starting", "initial"} \/ tries[i].ticking

(* mutated (as are the forms so marked below): the interval is not cleared *)
StopPollingTimeoutOnly(ts, m) ==
    [i \in Tries |-> IF i = latest[m] THEN [ts[i] EXCEPT !.armed = FALSE] ELSE ts[i]]

(* stopPolling and the dialog's cleanup: what the refs of mount m hold *)
StopPolling(ts, m) ==
    [i \in Tries |-> IF i = latest[m]
                     THEN [ts[i] EXCEPT !.armed = FALSE, !.ticking = FALSE]
                     ELSE ts[i]]

-----------------------------------------------------------------------------
Open ==
    /\ dialog.shown = "gone" /\ dialog.mount < MaxMounts
    /\ dialog' = [shown |-> "open", mount |-> dialog.mount + 1, phase |-> "pick"]
    /\ UNCHANGED <<pool, added, nTries, tries, latest, asked, doubled>>

Reopen ==
    /\ dialog.shown = "leaving"
    /\ dialog' = [dialog EXCEPT !.shown = "open"]
    /\ UNCHANGED <<pool, added, nTries, tries, latest, asked, doubled>>

(* The cross, Escape, the overlay, Cancel: the dialog begins to leave. *)
Close ==
    /\ dialog.shown = "open"
    /\ dialog' = [dialog EXCEPT !.shown = "leaving"]
    /\ UNCHANGED <<pool, added, nTries, tries, latest, asked, doubled>>

(* It has faded out, or the page goes: another address, or the view of an  *)
(* error when its own list cannot be loaded.                               *)
Unmount ==
    /\ dialog.shown # "gone"
    /\ dialog' = [dialog EXCEPT !.shown = "gone"]
    /\ tries' = StopPolling(tries, dialog.mount)
    /\ UNCHANGED <<pool, added, nTries, latest, asked, doubled>>

(* addMutation.mutate: the buttons stay enabled while one is pending ... *)
PickProvider ==
    /\ dialog.shown # "gone" /\ dialog.phase = "pick" /\ nTries < MaxTries
    /\ nTries' = nTries + 1
    /\ tries' = [tries EXCEPT ![nTries + 1] =
                   [NoTry EXCEPT !.mount = dialog.mount, !.pc = "starting"]]
    /\ doubled' = IF \E i \in Tries : tries[i].mount = dialog.mount /\ UnderWay(i)
                  THEN doubled \cup {dialog.mount} ELSE doubled
    /\ UNCHANGED <<pool, added, dialog, latest, asked>>

(* ... and its outcome, handled even if the dialog is gone: onError, or    *)
(* onSuccess, which opens the popup and asks for the list.                 *)
AddAnswered(i) ==
    /\ tries[i].pc = "starting"
    /\ \/ /\ tries' = [tries EXCEPT ![i].pc = "failed"]
          /\ UNCHANGED dialog
       \/ /\ tries' = [tries EXCEPT ![i].pc = "initial"]
          /\ dialog' = IF InDialog(tries[i].mount)
                       THEN [dialog EXCEPT !.phase = "waiting"] ELSE dialog
    /\ UNCHANGED <<pool, added, nTries, latest, asked, doubled>>

(* The first list: its length is the base, interval and timeout are set;   *)
(* if it fails, nothing is, and the dialog keeps waiting.                  *)
InitialAnswered(i) ==
    /\ tries[i].pc = "initial"
    /\ \/ /\ tries' = [tries EXCEPT ![i].pc = "failed"]
          /\ UNCHANGED latest
       \/ /\ tries' = [tries EXCEPT ![i] =
                         [@ EXCEPT !.pc = "set", !.ticking = TRUE, !.armed = TRUE,
                                   !.base = pool, !.at = added,
                                   !.late = ~InDialog(tries[i].mount)]]
          /\ latest' = [latest EXCEPT ![tries[i].mount] = i]
    /\ UNCHANGED <<pool, added, dialog, nTries, asked, doubled>>

Tick(i) ==
    /\ tries[i].ticking /\ Cardinality(asked) < MaxPolls
    /\ asked' = asked \cup {<<i, pool>>}
    /\ UNCHANGED <<pool, added, dialog, nTries, tries, latest, doubled>>

(* mutated: a list as long as before counts *)
LongerOrEqual(i, count) == count >= tries[i].base

Longer(i, count) == count > tries[i].base

(* A poll's answer: a longer list stops the polling and calls onAdded,     *)
(* which closes the dialog, whichever mount of it is open by now, and      *)
(* leaves its phase as it is.                                              *)
PollAnswered(i, count) ==
    /\ <<i, count>> \in asked
    /\ asked' = asked \ {<<i, count>>}
    /\ IF Longer(i, count)
       THEN /\ dialog' = [dialog EXCEPT !.shown = IF @ = "open" THEN "leaving" ELSE @]
            /\ tries' = [StopPolling(tries, tries[i].mount)
                         EXCEPT ![i].told = IF @ = -1 THEN added ELSE @]
       ELSE UNCHANGED <<dialog, tries>>
    /\ UNCHANGED <<pool, added, nTries, latest, doubled>>

(* mutated: the dialog is not told *)
TimeOutSilently(i) ==
    /\ tries[i].armed
    /\ tries' = [StopPolling(tries, tries[i].mount) EXCEPT ![i].armed = FALSE]
    /\ UNCHANGED <<pool, added, dialog, nTries, latest, asked, doubled>>

(* Two minutes are over.  The timeout of a try that another replaced stops *)
(* the other's timers.                                                     *)
TimeOut(i) ==
    /\ tries[i].armed
    /\ tries' = [StopPolling(tries, tries[i].mount) EXCEPT ![i].armed = FALSE]
    /\ dialog' = IF InDialog(tries[i].mount)
                 THEN [dialog EXCEPT !.phase = "pick"] ELSE dialog
    /\ UNCHANGED <<pool, added, nTries, latest, asked, doubled>>

-----------------------------------------------------------------------------
(* The server: the user authorizes in a popup that a try opened, or in     *)
(* another tab; accounts are removed here (removePoolAccount) or there.    *)
Authorize ==
    /\ added < MaxPool
    /\ added' = added + 1 /\ pool' = pool + 1
    /\ UNCHANGED <<dialog, nTries, tries, latest, asked, doubled>>

RemoveAccount ==
    /\ pool > 0 /\ pool' = pool - 1
    /\ UNCHANGED <<added, dialog, nTries, tries, latest, asked, doubled>>

PNext ==
    \/ Open \/ Reopen \/ Close \/ Unmount \/ PickProvider
    \/ \E i \in Tries : AddAnswered(i) \/ InitialAnswered(i) \/ Tick(i) \/ TimeOut(i)
    \/ \E a \in asked : PollAnswered(a[1], a[2])
    \/ Authorize \/ RemoveAccount
=============================================================================
