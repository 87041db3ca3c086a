----------------------------- MODULE MobileChat -----------------------------
(***************************************************************************)
(* Talking to the mobile app: by text (SendMessage, the chat screen) or by *)
(* voice (VoiceInput, the voice screen).  The two screens mount their own  *)
(* hooks and share no state: a behaviour is one of either.                 *)
(***************************************************************************)
EXTENDS SendMessage, VoiceInput

VARIABLE surface

vars == <<sendVars, voiceVars, surface>>

Init == SendInit /\ VoiceInit /\ surface \in {"text", "voice"}

Texting(A) == surface = "text" /\ A /\ UNCHANGED <<voiceVars, surface>>
Speaking(A) == surface = "voice" /\ A /\ UNCHANGED <<sendVars, surface>>

Next == Texting(SendNext) \/ Speaking(VoiceNext)

Spec == Init /\ [][Next]_vars

-----------------------------------------------------------------------------
(* A message marked sent is on the server, in the conversation the screen  *)
(* shows, also when earlier attempts had opened conversations of their own. *)
(* The conversation may be another where a message was sent while one that *)
(* had thrown slept, and for a message that has thrown, while it is sent   *)
(* again.                                                                  *)
SentIsStored ==
    \A m \in Messages : bubble[m] = "sent" =>
        \E row \in stored :
            /\ row.message = m
            /\ \/ row.conv = conv \/ crossed
               \/ \E c \in Calls : Running(c) /\ sends[c].message = m

(* What the client has seen stored it does not store again: the rows of a  *)
(* message, those to be replayed with them, are at most one more than the  *)
(* attempts that it took for failed though the row was kept.  (Not so once *)
(* sends have crossed: Retry may then send a message that did not fail.)   *)
StoredOnce ==
    crossed \/ \A m \in Messages : Cardinality(RowsOf(stored \cup queue, m)) <= 1 + kept[m]

(* A microphone that is on is on the screen, and a press there stops it:   *)
(* the status is recording and the one reference is to this take.  Not so  *)
(* when the hook was gone before its recording began, or when a take that  *)
(* was too short had been cancelled while it was being unloaded.           *)
MicIsShown ==
    \A i \in Takes :
        takes[i].pc = "recording" /\ ~takes[i].left /\ takes[i].screen \notin hasty
            => OnScreen(i) /\ voice = "recording" /\ held = i
=============================================================================
