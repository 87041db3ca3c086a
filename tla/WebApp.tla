------------------------------- MODULE WebApp -------------------------------
(***************************************************************************)
(* The web app, seen through one of four components that keep timers and   *)
(* requests of their own: the onboarding wizard (Onboarding), the dialog   *)
(* that connects an account (PoolManager), the chat (Chat), or the voice   *)
(* call (VoiceCall).  They share no state: a behaviour is one of either.   *)
(***************************************************************************)
EXTENDS Onboarding, PoolManager, Chat, VoiceCall

VARIABLE page

vars == <<onboardingVars, poolVars, chatVars, callVars, page>>

Init == OInit /\ PInit /\ ChInit /\ CallInit /\ page \in {"onboarding", "pool", "chat", "call"}

Wizard(A) == page = "onboarding" /\ A /\ UNCHANGED <<poolVars, chatVars, callVars, page>>
Accounts(A) == page = "pool" /\ A /\ UNCHANGED <<onboardingVars, chatVars, callVars, page>>
Chatting(A) == page = "chat" /\ A /\ UNCHANGED <<onboardingVars, poolVars, callVars, page>>
Calling(A) == page = "call" /\ A /\ UNCHANGED <<onboardingVars, poolVars, chatVars, page>>

Next == Wizard(ONext) \/ Accounts(PNext) \/ Chatting(ChNext) \/ Calling(CallNext)

(* Timers fire and fetches settle: the browser ends one that goes dead;    *)
(* that the user does anything is not assumed.                             *)
Fairness ==
    /\ WF_vars(Wizard(StartCommit))
    /\ WF_vars(Wizard(\E c \in commits : EndCommit(c)))
    /\ WF_vars(Accounts(\E i \in Tries :
                  AddAnswered(i) \/ InitialAnswered(i) \/ TimeOut(i)))

FairSpec == Init /\ [][Next]_vars /\ Fairness

-----------------------------------------------------------------------------
(* Beyond the server step the url is one that a probe has reached, unless  *)
(* it changed during a probe or while the server step moved out, or a step *)
(* was left twice while it moved out.                                      *)
(* (OnboardingWizard.tsx: Continue is disabled until serverValid, which is *)
(* a flag, not the url that was found valid.)                              *)
ServerWasReached ==
    wiz.step > Server /\ ~crossed /\ ~rushed => wiz.url \in reached

(* What the user changed last outside the wizard, settings or a sign-out,  *)
(* is what the store holds: a commit undoes it only if it was on its way   *)
(* when the change was made, never one that starts later.                  *)
UserHasLastWord == settings = acts \/ exposed

(* A wizard that reaches its last step lets the user in, however often the *)
(* timer's effect runs again, unless the user leaves it, or has left the   *)
(* preview twice: then the wizard stands beyond its last step, on a page   *)
(* with nothing but an arrow.                                              *)
DoneCompletes ==
    (page = "onboarding" /\ mounted /\ wiz.step = Done) ~> (complete \/ rushed \/ ~mounted)

(* "Account connected successfully" is true whenever it is said: since the *)
(* list that was the base, an account was added, whatever was removed,     *)
(* however late the answer and whichever try it belongs to.                *)
AddedIsTrue == \A i \in Tries : tries[i].told # -1 => tries[i].told > tries[i].at

(* No interval polls the server behind the user's back: the dialog it was  *)
(* set for is on the page and waiting, unless two tries ran in one dialog  *)
(* or the dialog was gone before the first list came.                      *)
NoStrayPolling ==
    \A i \in Tries :
        tries[i].ticking /\ ~tries[i].late /\ tries[i].mount \notin doubled
            => InDialog(tries[i].mount) /\ dialog.phase = "waiting"

(* A dialog that waits for an authorization does not wait for ever: it     *)
(* goes, or offers the providers again, unless the first list failed, or   *)
(* it was opened again on its way out, after it had found the account.     *)
WaitingEnds ==
    \A m \in Mounts :
        InDialog(m) /\ dialog.phase = "waiting" ~>
            \/ ~(InDialog(m) /\ dialog.phase = "waiting")
            \/ \E i \in Tries : /\ tries[i].mount = m
                               /\ (tries[i].pc = "failed" \/ tries[i].told # -1)

(* The answer that appears on the screen is the one to the newest message, *)
(* not mixed with text of an older stream, unless a message was sent while *)
(* one was in flight: after Stop, or while a conversation was asked for.   *)
ShownIsOwn == streaming /\ ~crowded => streamed \subseteq {newest}

(* Stop reaches the newest stream, also beside an older one, unless another *)
(* page has come up, as that of a new conversation does: its bar has no    *)
(* controller for the stream it shows a Stop for.                          *)
StopReaches ==
    streaming /\ sends[newest].bar = bar => abortOf[bar] = newest

(* No room stays connected behind the page: a call that is under way is    *)
(* the one the page shows and can hang up.  Not so when the page was left  *)
(* before the call was up, when its microphone failed, or when an answer   *)
(* of an earlier call was shown over it.                                   *)
LiveCallIsShown ==
    \A i \in Calls :
        (/\ calls[i].link = "on" /\ calls[i].pc \in {"up", "failed"}
         /\ ~calls[i].left /\ calls[i].visit \notin overtaken)
            => Here(i) /\ phase = "in-call" /\ inRoom = i /\ disconnect = i

(* What is saved as the memory of a call are lines of that call, unless    *)
(* lines came in from a call whose room was left or gone, or overtaken.    *)
SavedIsOwn ==
    \A i \in Calls :
        calls[i].saved /\ calls[i].visit \notin strayed \cup overtaken => calls[i].text \subseteq {i}
=============================================================================
