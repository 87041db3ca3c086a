----------------------------- MODULE Onboarding -----------------------------
(***************************************************************************)
(* The onboarding wizard of the web app (OnboardingWizard.tsx) and the     *)
(* part of the app store it writes (app-store.ts).  Two things outlive the *)
(* step that started them: a probe of a server url, and the commit of the  *)
(* last step, which awaits updateMe and then writes the settings it        *)
(* captured before.  The animation library keeps the step that leaves on   *)
(* screen, with the props and handlers it had, until its exit animation    *)
(* ends.  No page asks whether onboarding is complete: the user may leave  *)
(* the wizard for any other while a commit is under way.                   *)
(*                                                                         *)
(* Settings are abstracted to the number of the user's last act they       *)
(* reflect; accounts, models and texts are shown and saved, never tested.  *)
(***************************************************************************)
EXTENDS Integers

CONSTANTS
    Urls,        \* the urls a user may type; the field starts empty
    MaxActs,     \* bound: settings changes and sign-outs by the user
    MaxCommits   \* bound: commits in flight at once

VARIABLES
    wiz,        \* the wizard's state, see Fresh
    mounted,    \* the wizard is on the page
    probes,     \* urls being probed
    reached,    \* history: urls a probe of this wizard has reached
    crossed,    \* history: the url changed, or was probed again, during a probe,
                \* or it changed while the server step moved out
    rushed,     \* history: a step was left a second time, while it moved out
    commits,    \* the commits that await updateMe
    exposed,    \* history: a commit was in flight at the user's last act
    complete,   \* onboardingComplete
    acts,       \* changes the user made outside the wizard so far
    settings    \* the number of the last of them that settings reflect

wizardVars == <<wiz, mounted, probes, reached, crossed, rushed>>
storeVars == <<commits, exposed, complete, acts, settings>>
onboardingVars == <<wizardVars, storeVars>>

Welcome == 0
Server == 1
Profile == 4
Done == 6
Beyond == 7   \* bound: STEPS[7] is undefined, as is every later one
None == -1
Empty == "empty"

(* leaving: the step that moves out; frozen: the url and the verdict on it *)
(* that it shows, when it is the server step                               *)
NoField == [url |-> Empty, valid |-> FALSE]
Fresh == [step |-> Welcome, leaving |-> None, url |-> Empty, valid |-> FALSE,
          named |-> FALSE, frozen |-> NoField]

(* The step on screen, and the url and verdict that its handlers see.      *)
Shown == IF wiz.leaving = None THEN wiz.step ELSE wiz.leaving
Field == IF wiz.leaving = None THEN [url |-> wiz.url, valid |-> wiz.valid]
         ELSE wiz.frozen

OInit ==
    /\ wiz = Fresh /\ mounted = TRUE
    /\ probes = {} /\ reached = {} /\ crossed = FALSE /\ rushed = FALSE
    /\ commits = {} /\ exposed = FALSE
    /\ complete = FALSE /\ acts = 0 /\ settings = 0

-----------------------------------------------------------------------------
(* mutated (as are the forms so marked below: slips the code could well    *)
(* contain, each breaks a property, the specification uses none): typing   *)
(* does not reset serverValid                                              *)
TypeUrlKeepingValid ==
    /\ mounted /\ Shown = Server
    /\ \E u \in (Urls \cup {Empty}) \ {Field.url} : wiz' = [wiz EXCEPT !.url = u]
    /\ crossed' = (crossed \/ probes # {} \/ wiz.leaving # None)
    /\ UNCHANGED <<mounted, probes, reached, rushed, storeVars>>

(* The server step: the input's onChange, and checkServer up to its fetch, *)
(* which Enter calls also while a probe is under way; both from the step   *)
(* that moves out as well ...                                              *)
TypeUrl ==
    /\ mounted /\ Shown = Server
    /\ \E u \in (Urls \cup {Empty}) \ {Field.url} :
          wiz' = [wiz EXCEPT !.url = u, !.valid = FALSE]
    /\ crossed' = (crossed \/ probes # {} \/ wiz.leaving # None)
    /\ UNCHANGED <<mounted, probes, reached, rushed, storeVars>>

CheckServer ==
    /\ mounted /\ Shown = Server /\ Field.url \in Urls \ probes
    /\ probes' = probes \cup {Field.url}
    /\ crossed' = (crossed \/ probes # {})
    /\ UNCHANGED <<wiz, mounted, reached, rushed, storeVars>>

(* ... and its outcome, which says whether the server of the url probed    *)
(* answered and is stored for whatever url the field holds by now.         *)
ProbeEnds(u) ==
    /\ u \in probes
    /\ probes' = probes \ {u}
    /\ \E up \in BOOLEAN :
          /\ wiz' = [wiz EXCEPT !.valid = up]
          /\ reached' = IF up THEN reached \cup {u} ELSE reached
    /\ UNCHANGED <<mounted, crossed, rushed, storeVars>>

TypeName ==
    /\ mounted /\ Shown = Profile
    /\ wiz' = [wiz EXCEPT !.named = ~@]
    /\ UNCHANGED <<mounted, probes, reached, crossed, rushed, storeVars>>

(* goNext, from the button of the step on screen; only the server step     *)
(* disables its button.                                                    *)
Continue ==
    /\ mounted /\ Shown < Done /\ wiz.step < Beyond
    /\ Shown = Server => Field.valid
    /\ wiz' = [wiz EXCEPT !.step = @ + 1, !.leaving = Shown,
                          !.frozen = IF Shown = Server THEN Field ELSE NoField]
    /\ rushed' = (rushed \/ wiz.leaving # None)
    /\ UNCHANGED <<mounted, probes, reached, crossed, storeVars>>

(* mutated: the last step can be left again *)
BackAnywhere ==
    /\ mounted /\ wiz.step > Welcome
    /\ wiz' = [wiz EXCEPT !.step = @ - 1, !.leaving = None]
    /\ UNCHANGED <<mounted, probes, reached, crossed, rushed, storeVars>>

(* goBack, from the arrow or Escape; a step that was moving out comes back. *)
Back ==
    /\ mounted /\ wiz.step > Welcome /\ wiz.step # Done
    /\ wiz' = [wiz EXCEPT !.step = @ - 1,
                          !.leaving = IF @ = wiz.step - 1 THEN None ELSE Shown,
                          !.frozen = IF wiz.leaving # wiz.step - 1 /\ Shown = Server
                                     THEN Field ELSE NoField]
    /\ UNCHANGED <<mounted, probes, reached, crossed, rushed, storeVars>>

ExitEnds ==
    /\ mounted /\ wiz.leaving # None
    /\ wiz' = [wiz EXCEPT !.leaving = None, !.frozen = NoField]
    /\ UNCHANGED <<mounted, probes, reached, crossed, rushed, storeVars>>

(* The wizard unmounts, and what it was doing for its steps is lost.       *)
UnmountWizard ==
    /\ mounted' = FALSE
    /\ wiz' = Fresh /\ probes' = {} /\ reached' = {}
    /\ crossed' = FALSE /\ rushed' = FALSE

(* The browser's back, another address, the link to the login page.        *)
LeaveWizard == mounted /\ UnmountWizard /\ UNCHANGED storeVars

-----------------------------------------------------------------------------
(* setSettings, setOnboardingComplete and router.push('/'): whatever page  *)
(* the user is on by now; the wizard unmounts.                             *)
Conclude(base) ==
    /\ settings' = base
    /\ complete' = TRUE
    /\ UnmountWizard

(* mutated: settings is not among the effect's dependencies *)
StartCommitStale ==
    /\ mounted /\ wiz.step = Done /\ ~wiz.named
    /\ Conclude(0)
    /\ UNCHANGED <<commits, exposed, acts>>

(* The timer of the last step fires.  updateModelSelection replaces the    *)
(* settings object, which runs the effect again: while the wizard stays    *)
(* mounted another timer is always pending.  Without a name the commit     *)
(* ends at once, else it awaits updateMe.                                  *)
StartCommit ==
    /\ mounted /\ wiz.step = Done
    /\ IF wiz.named
       THEN \E id \in 1 .. MaxCommits :
               /\ id \notin {c.id : c \in commits}
               /\ commits' = commits \cup {[id |-> id, base |-> settings]}
               /\ UNCHANGED <<wizardVars, settings, complete>>
       ELSE Conclude(settings) /\ UNCHANGED commits
    /\ UNCHANGED <<exposed, acts>>

EndCommit(c) ==
    /\ c \in commits
    /\ commits' = commits \ {c}
    /\ Conclude(c.base)
    /\ UNCHANGED <<exposed, acts>>

-----------------------------------------------------------------------------
(* On any other page: a settings page stores a change; signOut clears the  *)
(* store; a login, or the address itself, opens the wizard again as long   *)
(* as onboarding is not complete.                                          *)
Act ==
    /\ ~mounted /\ acts < MaxActs
    /\ acts' = acts + 1 /\ settings' = acts + 1
    /\ exposed' = (commits # {})

EditSettings == Act /\ UNCHANGED <<wizardVars, commits, complete>>

SignOut ==
    /\ Act
    /\ complete' = FALSE
    /\ UNCHANGED <<wizardVars, commits>>

Login ==
    /\ ~complete /\ ~mounted
    /\ mounted' = TRUE
    /\ UNCHANGED <<wiz, probes, reached, crossed, rushed, storeVars>>

ONext ==
    \/ TypeUrl \/ CheckServer \/ TypeName \/ Continue \/ Back \/ ExitEnds \/ LeaveWizard
    \/ \E u \in Urls : ProbeEnds(u)
    \/ StartCommit \/ \E c \in commits : EndCommit(c)
    \/ EditSettings \/ SignOut \/ Login
=============================================================================
