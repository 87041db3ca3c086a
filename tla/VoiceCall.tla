------------------------------ MODULE VoiceCall ------------------------------
(***************************************************************************)
(* The page of voice calls (call/page.tsx).  A call asks the server for a  *)
(* token, connects to a LiveKit room, turns the microphone on and only     *)
(* then hands the page its disconnect(); hanging up disconnects and sends  *)
(* the transcript to be saved.  What a call awaits goes on when the page   *)
(* has left it behind, and writes the one phase, ref and transcript of the *)
(* page.  A visit is one mount of the page.  handleStart is only offered   *)
(* in phase idle, so the phase its disconnect handler tests is always      *)
(* "idle", never "ending".                                                 *)
(***************************************************************************)
EXTENDS Integers

CONSTANTS
    MaxCalls,   \* bound: calls ever started
    MaxVisits   \* bound: visits of the page

ASSUME CallBounds == MaxCalls \in Nat /\ MaxVisits \in Nat

VARIABLES
    phase,       \* CallState of the page that is open
    inRoom,      \* roomName of the phase in-call
    disconnect,  \* disconnectRef: the call it would disconnect, or NoCall
    transcript,  \* the calls whose lines are on the page
    visit,       \* visits so far
    nCalls,      \* calls so far
    calls,       \* calls[i]: the i-th call, see Unstarted
    overtaken,   \* history: visits that an earlier call changed, see Show
    strayed      \* history: visits with lines from a call that was over

callVars == <<phase, inRoom, disconnect, transcript, visit, nCalls, calls, overtaken, strayed>>

NoCall == 0
Calls == 1 .. MaxCalls

(* pc: what handleStart awaits; link: the room's connection; hears: the    *)
(* browser's recognition of the user's speech runs; text: the transcript a *)
(* hang-up sent, saved: the server has it; left: history, the page was     *)
(* left before the call was up, or its microphone failed                   *)
Unstarted == [visit |-> 0, pc |-> "none", link |-> "off", hears |-> FALSE, asked |-> FALSE,
              text |-> {}, saved |-> FALSE, left |-> FALSE]

CallInit ==
    /\ phase = "idle" /\ inRoom = NoCall /\ disconnect = NoCall /\ transcript = {}
    /\ visit = 1 /\ nCalls = 0 /\ calls = [i \in Calls |-> Unstarted]
    /\ overtaken = {} /\ strayed = {}

Here(i) == calls[i].visit = visit

(* setState, of a page that may be gone; an earlier call's is noted *)
Show(i, p) ==
    /\ phase' = IF Here(i) THEN p ELSE phase
    /\ overtaken' = IF Here(i) /\ i < nCalls THEN overtaken \cup {visit} ELSE overtaken

(* mutated (as are the forms so marked below: slips the code could well    *)
(* contain; not used): the ref is dropped unused                           *)
NotDisconnected(cs, i) == cs

(* what disconnect() of call i does to the rooms' calls cs *)
Disconnected(cs, i) ==
    [j \in Calls |-> IF j # i THEN cs[j]
                     ELSE [cs[j] EXCEPT !.hears = FALSE, !.link = IF @ = "on" THEN "leaving" ELSE @]]

-----------------------------------------------------------------------------
(* handleStart; without a connection it only says so. *)
Dial ==
    /\ phase = "idle"
    /\ \/ /\ nCalls < MaxCalls /\ nCalls' = nCalls + 1
          /\ calls' = [calls EXCEPT ![nCalls + 1] = [Unstarted EXCEPT !.visit = visit, !.pc = "token"]]
          /\ phase' = "requesting-token"
       \/ phase' = "error" /\ UNCHANGED <<nCalls, calls>>
    /\ UNCHANGED <<inRoom, disconnect, transcript, visit, overtaken, strayed>>

TokenAnswered(i) ==
    /\ calls[i].pc = "token"
    /\ \/ calls' = [calls EXCEPT ![i].pc = "connect"] /\ Show(i, "connecting")
       \/ calls' = [calls EXCEPT ![i].pc = "failed"] /\ Show(i, "error")
    /\ UNCHANGED <<inRoom, disconnect, transcript, visit, nCalls, strayed>>

Connected(i) ==
    /\ calls[i].pc = "connect"
    /\ \/ calls' = [calls EXCEPT ![i].pc = "microphone", ![i].link = "on"] /\ UNCHANGED <<phase, overtaken>>
       \/ calls' = [calls EXCEPT ![i].pc = "failed"] /\ Show(i, "error")
    /\ UNCHANGED <<inRoom, disconnect, transcript, visit, nCalls, strayed>>

(* The microphone is on: now the page can disconnect. *)
InCall(i) ==
    /\ calls[i].pc = "microphone"
    /\ calls' = [calls EXCEPT ![i].pc = "up", ![i].hears = TRUE]
    /\ Show(i, "in-call")
    /\ IF Here(i) THEN inRoom' = i /\ disconnect' = i ELSE UNCHANGED <<inRoom, disconnect>>
    /\ UNCHANGED <<transcript, visit, nCalls, strayed>>

(* It is refused: the error is shown, the room stays connected. *)
MicrophoneFails(i) ==
    /\ calls[i].pc = "microphone"
    /\ calls' = [calls EXCEPT ![i].pc = "failed", ![i].left = TRUE]
    /\ Show(i, "error")
    /\ UNCHANGED <<inRoom, disconnect, transcript, visit, nCalls, strayed>>

(* RoomEvent.Disconnected: the network, the server or disconnect(). *)
LinkEnds(i) ==
    /\ calls[i].link \in {"on", "leaving"}
    /\ calls' = [calls EXCEPT ![i].link = "gone"]
    /\ Show(i, "error")
    /\ UNCHANGED <<inRoom, disconnect, transcript, visit, nCalls, strayed>>

(* A line comes over the room, or is heard from the user: that goes on     *)
(* when the room is gone, until somebody calls disconnect().               *)
Line(i) ==
    /\ Here(i) /\ (calls[i].link \in {"on", "leaving"} \/ calls[i].hears)
    /\ transcript' = transcript \cup {i}
    /\ strayed' = IF calls[i].link # "on" \/ calls[i].left \/ i < nCalls
                  THEN strayed \cup {visit} ELSE strayed
    /\ UNCHANGED <<phase, inRoom, disconnect, visit, nCalls, calls, overtaken>>

(* handleEnd: the ref is used up and the transcript sent to be saved. *)
HangUp ==
    /\ phase = "in-call"
    /\ phase' = "ending" /\ disconnect' = NoCall
    /\ calls' = [Disconnected(calls, disconnect) EXCEPT ![inRoom].asked = TRUE, ![inRoom].text = transcript]
    /\ UNCHANGED <<inRoom, transcript, visit, nCalls, overtaken, strayed>>

EndAnswered(i) ==
    /\ calls[i].asked
    /\ \/ calls' = [calls EXCEPT ![i].asked = FALSE, ![i].saved = TRUE] /\ Show(i, "saved")
       \/ calls' = [calls EXCEPT ![i].asked = FALSE] /\ Show(i, "error")
    /\ UNCHANGED <<inRoom, disconnect, transcript, visit, nCalls, strayed>>

(* mutated: the transcript stays *)
ResetPhaseOnly ==
    /\ phase \in {"saved", "error"} /\ phase' = "idle"
    /\ UNCHANGED <<transcript, inRoom, disconnect, visit, nCalls, calls, overtaken, strayed>>

(* handleReset: Start New Call, Try Again *)
Reset ==
    /\ phase \in {"saved", "error"} /\ phase' = "idle"
    /\ transcript' = {}
    /\ UNCHANGED <<inRoom, disconnect, visit, nCalls, calls, overtaken, strayed>>

(* The page unmounts, and what it held with it; later it is opened anew.   *)
LeavePage ==
    /\ visit < MaxVisits /\ visit' = visit + 1
    /\ calls' = [i \in Calls |->
                    [Disconnected(calls, disconnect)[i] EXCEPT
                        !.left = @ \/ calls[i].pc \in {"token", "connect", "microphone"}]]
    /\ phase' = "idle" /\ inRoom' = NoCall /\ disconnect' = NoCall /\ transcript' = {}
    /\ UNCHANGED <<nCalls, overtaken, strayed>>

CallNext ==
    \/ Dial \/ HangUp \/ Reset \/ LeavePage
    \/ \E i \in Calls : \/ TokenAnswered(i) \/ Connected(i) \/ InCall(i) \/ MicrophoneFails(i)
                        \/ LinkEnds(i) \/ Line(i) \/ EndAnswered(i)
=============================================================================
