----------------------------- MODULE VoiceInput -----------------------------
(***************************************************************************)
(* Speaking to the mobile app (useVoiceInput.ts): a recording is started,  *)
(* stopped and transcribed, each over several awaits, by callbacks that    *)
(* test the status they were rendered with.  The hook keeps one reference  *)
(* to a recording, set only once it runs.  A visit is one mount of the     *)
(* hook; what it awaits goes on after it is gone.                          *)
(* The auto-stop after MAX_DURATION_MS is no action: its timer calls the   *)
(* stopRecording that was rendered while the status was still "idle",      *)
(* which returns at its first test.  Nor does anything lead from the       *)
(* status "error" back to "idle".  cancelRecording sets cancelledRef and    *)
(* clears it again through resetToIdle, so the tests of it find it unset.  *)
(***************************************************************************)
EXTENDS Integers

CONSTANTS
    MaxTakes,   \* bound: recordings ever started
    MaxScreens  \* bound: visits of a screen with the hook

ASSUME BoundsAssumption == MaxTakes \in Nat /\ MaxScreens \in Nat

VARIABLES
    voice,      \* the hook's VoiceStatus
    granted,    \* isPermissionGranted
    held,       \* recordingRef: a take, or NoTake
    screen,     \* visits so far
    nTakes,     \* takes so far
    takes,      \* takes[i]: the i-th startRecording and what follows from it
    hasty       \* history: visits in which a take that was too short was
                \* cancelled while it was still being unloaded

voiceVars == <<voice, granted, held, screen, nTakes, takes, hasty>>

NoTake == 0
Takes == 1 .. MaxTakes

(* pc: what the take awaits; left: history, the hook was gone when the     *)
(* take began to record                                                    *)
NotTaken == [screen |-> 0, pc |-> "none", left |-> FALSE]

VoiceInit ==
    /\ voice = "idle" /\ granted \in BOOLEAN /\ held = NoTake
    /\ screen = 1 /\ nTakes = 0 /\ takes = [i \in Takes |-> NotTaken]
    /\ hasty = {}

OnScreen(i) == takes[i].screen = screen

(* setStatus and emitError, of a hook that may be gone *)
SetStatus(i, s) == voice' = IF OnScreen(i) THEN s ELSE voice

Goes(i, pc) == takes' = [takes EXCEPT ![i].pc = pc]

-----------------------------------------------------------------------------
(* startRecording, up to its first await *)
StartRecording ==
    /\ voice = "idle" /\ nTakes < MaxTakes
    /\ nTakes' = nTakes + 1
    /\ voice' = "requesting_permission"
    /\ takes' = [takes EXCEPT ![nTakes + 1] =
                    [screen |-> screen, pc |-> IF granted THEN "mode" ELSE "permission", left |-> FALSE]]
    /\ UNCHANGED <<granted, held, screen, hasty>>

(* What the user answers; a request that fails is caught by nobody.        *)
PermissionAnswered(i) ==
    /\ takes[i].pc = "permission"
    /\ \/ \E allowed \in BOOLEAN :
              /\ granted' = IF OnScreen(i) THEN allowed ELSE granted
              /\ IF allowed THEN Goes(i, "mode") /\ UNCHANGED voice
                            ELSE Goes(i, "over") /\ SetStatus(i, "error")
       \/ Goes(i, "over") /\ UNCHANGED <<granted, voice>>
    /\ UNCHANGED <<held, screen, nTakes, hasty>>

ModeSet(i) ==
    /\ takes[i].pc = "mode"
    /\ \/ Goes(i, "prepare") /\ UNCHANGED voice
       \/ Goes(i, "over") /\ SetStatus(i, "error")
    /\ UNCHANGED <<granted, held, screen, nTakes, hasty>>

(* It records; a hook that is gone is not there to stop it.                *)
Recording(i) ==
    /\ takes[i].pc = "prepare"
    /\ \/ /\ takes' = [takes EXCEPT ![i].pc = "recording", ![i].left = ~OnScreen(i)]
          /\ held' = IF OnScreen(i) THEN i ELSE held
          /\ SetStatus(i, "recording")
       \/ Goes(i, "over") /\ SetStatus(i, "error") /\ UNCHANGED held
    /\ UNCHANGED <<granted, screen, nTakes, hasty>>

(* stopRecording: what is shorter than MIN_DURATION_MS is only unloaded,   *)
(* and shown as recording until that is done.                              *)
StopRecording ==
    /\ voice = "recording" /\ held # NoTake
    /\ held' = NoTake
    /\ \/ Goes(held, "unload") /\ UNCHANGED voice
       \/ Goes(held, "stop") /\ voice' = "transcribing"
    /\ UNCHANGED <<granted, screen, nTakes, hasty>>

Unloaded(i) ==
    /\ takes[i].pc = "unload"
    /\ Goes(i, "over") /\ SetStatus(i, "error")
    /\ UNCHANGED <<granted, held, screen, nTakes, hasty>>

(* stopAndUnloadAsync, the file read, then the transcription: each fails   *)
(* or leads to the next.                                                   *)
Stopped(i) ==
    /\ takes[i].pc = "stop"
    /\ \/ Goes(i, "read") /\ UNCHANGED voice
       \/ Goes(i, "over") /\ SetStatus(i, "error")
    /\ UNCHANGED <<granted, held, screen, nTakes, hasty>>

AudioRead(i) ==
    /\ takes[i].pc = "read"
    /\ \/ Goes(i, "transcribe") /\ UNCHANGED voice
       \/ Goes(i, "over") /\ SetStatus(i, "error")
    /\ UNCHANGED <<granted, held, screen, nTakes, hasty>>

(* The text is handed on, to a screen that may be gone, and the status     *)
(* reset with the next frame.                                              *)
Transcribed(i) ==
    /\ takes[i].pc = "transcribe"
    /\ \/ Goes(i, "frame") /\ SetStatus(i, "done")
       \/ Goes(i, "over") /\ SetStatus(i, "error")
    /\ UNCHANGED <<granted, held, screen, nTakes, hasty>>

Frame(i) ==
    /\ takes[i].pc = "frame"
    /\ Goes(i, "over") /\ SetStatus(i, "idle")
    /\ UNCHANGED <<granted, held, screen, nTakes, hasty>>

(* mutated (not used; a slip the code could well contain): the recording   *)
(* is let go of, not stopped                                               *)
LetGo == takes

(* What stopping the take that is held does to the takes.                  *)
Silenced == IF held = NoTake THEN takes ELSE [takes EXCEPT ![held].pc = "over"]

CancelRecording ==
    /\ voice = "recording"
    /\ takes' = Silenced /\ held' = NoTake
    /\ voice' = "idle"
    /\ hasty' = IF held = NoTake THEN hasty \cup {screen} ELSE hasty
    /\ UNCHANGED <<granted, screen, nTakes>>

(* The hook unmounts; another screen mounts it and reads the permission.   *)
LeaveScreen ==
    /\ screen < MaxScreens /\ screen' = screen + 1
    /\ takes' = Silenced /\ held' = NoTake
    /\ voice' = "idle" /\ granted' \in BOOLEAN
    /\ UNCHANGED <<nTakes, hasty>>

VoiceNext ==
    \/ StartRecording \/ StopRecording \/ CancelRecording \/ LeaveScreen
    \/ \E i \in Takes : \/ PermissionAnswered(i) \/ ModeSet(i) \/ Recording(i) \/ Unloaded(i)
                        \/ Stopped(i) \/ AudioRead(i) \/ Transcribed(i) \/ Frame(i)
=============================================================================
