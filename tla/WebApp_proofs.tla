--------------------------- MODULE WebApp_proofs ----------------------------
(***************************************************************************)
(* Proofs about the web app.  Each component is shown to keep an invariant *)
(* of its own; the steps of the others leave its variables alone.          *)
(***************************************************************************)
EXTENDS WebApp, FiniteSetTheorems, TLAPS

-----------------------------------------------------------------------------
(* Onboarding *)

Fields == [url : Urls \cup {Empty}, valid : BOOLEAN]
Wizards == [step : Nat, leaving : Int, url : Urls \cup {Empty}, valid : BOOLEAN,
            named : BOOLEAN, frozen : Fields]

WizardType ==
    /\ wiz \in Wizards
    /\ commits \subseteq [id : Nat, base : Nat] /\ acts \in Nat /\ settings \in Nat

(* While the url stays what it is, a probe is one of this url, serverValid *)
(* says what a probe of it found, and the server step shows no other.      *)
ProbedIsTyped ==
    ~crossed => /\ probes \subseteq {wiz.url}
                /\ wiz.valid => wiz.url \in reached
                /\ wiz.leaving = Server => wiz.frozen.url = wiz.url

(* Only the commits that were in flight at the user's last act hold older  *)
(* settings than those.                                                    *)
CommitsAreCurrent == exposed \/ (\A c \in commits : c.base = acts)

OnboardingInv ==
    /\ WizardType /\ ProbedIsTyped /\ ServerWasReached
    /\ CommitsAreCurrent /\ UserHasLastWord

(* The wizard starts out with no probe, no commit and no act.              *)
LEMMA OnboardingStarts == OInit => OnboardingInv
BY DEF OInit, OnboardingInv, WizardType, Wizards, Fields, ProbedIsTyped, ServerWasReached,
       CommitsAreCurrent, UserHasLastWord, Fresh, NoField, Welcome, Server, None

(* A step that is not the server step shows an empty field.                *)
LEMMA NoFieldIsField == NoField \in Fields
BY DEF NoField, Fields

(* The steps that leave the store alone, by what they do to the wizard.    *)
LEMMA WizardMoves ==
    ASSUME OnboardingInv, UNCHANGED storeVars, wiz' \in Wizards, ProbedIsTyped', ServerWasReached'
    PROVE  OnboardingInv'
<1>1. WizardType'
  BY DEF OnboardingInv, WizardType, storeVars
<1>2. CommitsAreCurrent' /\ UserHasLastWord'
  BY DEF OnboardingInv, CommitsAreCurrent, UserHasLastWord, storeVars
<1> QED
  BY <1>1, <1>2 DEF OnboardingInv

(* A wizard that is gone is one that begins.                               *)
LEMMA WizardGone ==
    ASSUME UnmountWizard
    PROVE  wiz' \in Wizards /\ ProbedIsTyped' /\ ServerWasReached'
<1>1. Fresh \in Wizards /\ Fresh.step = Welcome /\ Fresh.valid = FALSE /\ Fresh.leaving = None
  BY DEF Fresh, NoField, Wizards, Fields, Welcome, None
<1>2. wiz' = Fresh /\ probes' = {}
  BY DEF UnmountWizard
<1> QED
  BY <1>1, <1>2 DEF ProbedIsTyped, ServerWasReached, Welcome, Server, None

(* What the server step on screen shows.                                   *)
LEMMA FieldIsTyped ==
    ASSUME OnboardingInv
    PROVE  /\ Field \in Fields
           /\ ~crossed /\ Shown = Server => Field.url = wiz.url
<1>1. wiz \in Wizards
  BY DEF OnboardingInv, WizardType
<1>2. Field \in Fields
  BY <1>1 DEF Field, Fields, Wizards
<1>3. ASSUME ~crossed, Shown = Server PROVE Field.url = wiz.url
  BY <1>1, <1>3 DEF OnboardingInv, ProbedIsTyped, Field, Shown, Wizards
<1> QED
  BY <1>2, <1>3

(* Every step of the wizard, and of the app behind it, keeps the           *)
(* invariant: what it does not say of a url that moved, of a step that was *)
(* left twice and of a commit that an act found in flight is what the      *)
(* histories stand for.                                                    *)
LEMMA OnboardingStep == OnboardingInv /\ [ONext]_onboardingVars => OnboardingInv'
<1> SUFFICES ASSUME OnboardingInv, [ONext]_onboardingVars
             PROVE  OnboardingInv'
  OBVIOUS
<1> USE DEF OnboardingInv
<1>0. wiz \in Wizards
  BY DEF WizardType
<1>1. CASE TypeUrl
  <2>1. PICK u \in Urls \cup {Empty} : wiz' = [wiz EXCEPT !.url = u, !.valid = FALSE]
    BY <1>1 DEF TypeUrl
  <2>2. wiz' \in Wizards /\ wiz'.step = wiz.step /\ wiz'.leaving = wiz.leaving /\ ~wiz'.valid
    BY <1>0, <2>1 DEF Wizards
  <2>3. Shown = Server /\ UNCHANGED <<mounted, probes, reached, rushed, storeVars>>
    BY <1>1 DEF TypeUrl
  <2>4. ~crossed' => ~crossed /\ probes = {} /\ wiz.leaving = None
    BY <1>1, Zenon DEF TypeUrl
  <2>5. ProbedIsTyped' /\ ServerWasReached'
    BY <2>2, <2>3, <2>4 DEF ProbedIsTyped, ServerWasReached, Shown, Server, None
  <2> QED
    BY <2>2, <2>3, <2>5, WizardMoves
<1>2. CASE CheckServer
  <2>1. /\ Shown = Server /\ wiz' = wiz /\ probes' = probes \cup {Field.url}
        /\ UNCHANGED <<mounted, reached, rushed, storeVars>>
    BY <1>2 DEF CheckServer
  <2>2. ~crossed' => ~crossed /\ probes = {}
    BY <1>2, Zenon DEF CheckServer
  <2>3. ProbedIsTyped' /\ ServerWasReached'
    BY <2>1, <2>2, FieldIsTyped DEF ProbedIsTyped, ServerWasReached
  <2> QED
    BY <1>0, <2>1, <2>3, WizardMoves
<1>3. ASSUME NEW u \in Urls, ProbeEnds(u)
      PROVE  OnboardingInv'
  <2>1. PICK up \in BOOLEAN : wiz' = [wiz EXCEPT !.valid = up] /\ reached' = IF up THEN reached \cup {u} ELSE reached
    BY <1>3 DEF ProbeEnds
  <2>2. /\ wiz' \in Wizards /\ wiz'.step = wiz.step /\ wiz'.leaving = wiz.leaving
        /\ wiz'.url = wiz.url /\ wiz'.frozen = wiz.frozen
    BY <1>0, <2>1 DEF Wizards
  <2>3. wiz'.valid => up
    BY <1>0, <2>1, Zenon DEF Wizards
  <2>4. u \in probes /\ probes' = probes \ {u} /\ UNCHANGED <<mounted, crossed, rushed, storeVars>>
    BY <1>3 DEF ProbeEnds
  <2>5. reached \subseteq reached' /\ (up => u \in reached')
    BY <2>1
  <2>6. ProbedIsTyped'
    BY <2>2, <2>3, <2>4, <2>5 DEF ProbedIsTyped
  <2>7. ServerWasReached'
    BY <2>2, <2>4, <2>5 DEF ServerWasReached
  <2> QED
    BY <2>2, <2>4, <2>6, <2>7, WizardMoves
<1>4. CASE TypeName
  <2>1. /\ wiz' \in Wizards /\ wiz'.step = wiz.step /\ wiz'.leaving = wiz.leaving
        /\ wiz'.url = wiz.url /\ wiz'.valid = wiz.valid /\ wiz'.frozen = wiz.frozen
    <3>1. wiz' = [wiz EXCEPT !.named = ~wiz.named]
      BY <1>4 DEF TypeName
    <3>2. (~wiz.named) \in BOOLEAN
      OBVIOUS
    <3> QED
      BY <1>0, <3>1, <3>2 DEF Wizards
  <2>2. UNCHANGED <<mounted, probes, reached, crossed, rushed, storeVars>>
    BY <1>4 DEF TypeName
  <2>3. ProbedIsTyped' /\ ServerWasReached'
    BY <2>1, <2>2 DEF ProbedIsTyped, ServerWasReached
  <2> QED
    BY <2>1, <2>2, <2>3, WizardMoves
<1>5. CASE Continue \/ Back
  <2>1. PICK n \in {wiz.step + 1, wiz.step - 1}, m \in {None, Shown}, f \in {NoField, Field} :
           /\ wiz' = [wiz EXCEPT !.step = n, !.leaving = m, !.frozen = f]
           /\ m = Server => f = Field
           /\ n = wiz.step - 1 => wiz.step > Welcome
           /\ n = wiz.step + 1 => Continue
    <3>1. CASE Continue
      <4> DEFINE f == IF Shown = Server THEN Field ELSE NoField
      <4>1. wiz' = [wiz EXCEPT !.step = wiz.step + 1, !.leaving = Shown, !.frozen = f]
        BY <3>1 DEF Continue
      <4>2. f \in {NoField, Field} /\ (Shown = Server => f = Field)
        OBVIOUS
      <4>3. wiz.step + 1 # wiz.step - 1
        BY <1>0 DEF Wizards
      <4> HIDE DEF f
      <4> QED
        BY <3>1, <4>1, <4>2, <4>3
    <3>2. CASE Back
      <4> DEFINE m == IF wiz.leaving = wiz.step - 1 THEN None ELSE Shown
                 f == IF wiz.leaving # wiz.step - 1 /\ Shown = Server THEN Field ELSE NoField
      <4>1. /\ wiz' = [wiz EXCEPT !.step = wiz.step - 1, !.leaving = m, !.frozen = f]
            /\ wiz.step > Welcome
        BY <3>2 DEF Back
      <4>2. f \in {NoField, Field} /\ m \in {None, Shown} /\ (m = Server => f = Field)
        BY DEF None, Server
      <4>3. wiz.step + 1 # wiz.step - 1
        BY <1>0 DEF Wizards
      <4> HIDE DEF f, m
      <4> QED
        BY <4>1, <4>2, <4>3
    <3> QED
      BY <1>5, <3>1, <3>2
  <2>2. UNCHANGED <<mounted, probes, reached, crossed, storeVars>>
    BY <1>5 DEF Continue, Back
  <2>7. ~rushed' => ~rushed
    BY <1>5, Zenon DEF Continue, Back
  <2>3. wiz.step \in Nat /\ n \in Nat /\ m \in Int /\ f \in Fields
    <3>1. wiz.step \in Nat /\ Shown \in Int
      BY <1>0 DEF Wizards, Shown
    <3>2. n \in Nat
      BY <2>1, <3>1 DEF Welcome
    <3>3. m \in Int
      BY <2>1, <3>1 DEF None
    <3> QED
      BY <2>1, <3>1, <3>2, <3>3, FieldIsTyped, NoFieldIsField
  <2>4. /\ wiz' \in Wizards /\ wiz'.step = n /\ wiz'.url = wiz.url
        /\ wiz'.valid = wiz.valid /\ wiz'.leaving = m /\ wiz'.frozen = f
    BY <1>0, <2>1, <2>3 DEF Wizards
  <2>5. ProbedIsTyped'
    BY <2>1, <2>2, <2>4, FieldIsTyped DEF ProbedIsTyped, None, Server
  <2>6. ServerWasReached'
    <3> SUFFICES ASSUME n > Server, ~crossed, ~rushed'
                 PROVE  wiz.url \in reached
      BY <2>2, <2>4, <2>7 DEF ServerWasReached
    <3>1. CASE n = wiz.step - 1
      BY <2>2, <2>3, <2>7, <3>1 DEF ServerWasReached, Server
    <3>2. CASE n = wiz.step + 1
      <4>1. Continue
        BY <2>1, <3>2
      <4>2. wiz.leaving = None
        BY <4>1, Zenon DEF Continue
      <4>3. wiz.step = Server => wiz.valid
        BY <4>1, <4>2 DEF Continue, Shown, Field
      <4>4. CASE wiz.step = Server
        BY <4>3, <4>4 DEF ProbedIsTyped
      <4>5. CASE wiz.step > Server
        BY <2>2, <2>7, <4>5 DEF ServerWasReached
      <4> QED
        BY <2>3, <3>2, <4>4, <4>5 DEF Server
    <3> QED
      BY <2>1, <3>1, <3>2
  <2> QED
    BY <2>2, <2>4, <2>5, <2>6, WizardMoves
<1>6. CASE ExitEnds
  <2>1. /\ wiz' = [wiz EXCEPT !.leaving = None, !.frozen = NoField]
        /\ UNCHANGED <<mounted, probes, reached, crossed, rushed, storeVars>>
    BY <1>6 DEF ExitEnds
  <2>2. /\ wiz' \in Wizards /\ wiz'.step = wiz.step /\ wiz'.url = wiz.url
        /\ wiz'.valid = wiz.valid /\ wiz'.leaving = None
    <3>1. \A n \in Int, f \in Fields :
             LET w == [wiz EXCEPT !.leaving = n, !.frozen = f]
             IN  /\ w \in Wizards /\ w.step = wiz.step /\ w.url = wiz.url
                 /\ w.valid = wiz.valid /\ w.leaving = n
      BY <1>0 DEF Wizards
    <3>2. None \in Int
      BY DEF None
    <3> QED
      BY <2>1, <3>1, <3>2, NoFieldIsField
  <2>3. ProbedIsTyped' /\ ServerWasReached'
    BY <2>1, <2>2 DEF ProbedIsTyped, ServerWasReached, None, Server
  <2> QED
    BY <2>1, <2>2, <2>3, WizardMoves
<1>7. CASE LeaveWizard
  BY <1>7, WizardGone, WizardMoves DEF LeaveWizard
<1>8. CASE StartCommit
  <2>1. UNCHANGED <<exposed, acts>>
    BY <1>8 DEF StartCommit
  <2>2. CASE wiz.named
    <3>1. PICK id \in 1 .. MaxCommits : commits' = commits \cup {[id |-> id, base |-> settings]}
      BY <1>8, <2>2 DEF StartCommit
    <3>2. UNCHANGED <<wizardVars, settings>>
      BY <1>8, <2>2 DEF StartCommit
    <3>3. WizardType' /\ ProbedIsTyped' /\ ServerWasReached'
      BY <2>1, <3>1, <3>2 DEF WizardType, ProbedIsTyped, ServerWasReached, wizardVars
    <3>4. CommitsAreCurrent' /\ UserHasLastWord'
      BY <2>1, <3>1, <3>2 DEF CommitsAreCurrent, UserHasLastWord
    <3> QED
      BY <3>3, <3>4
  <2>3. CASE ~wiz.named
    <3>1. settings' = settings /\ UnmountWizard /\ UNCHANGED commits
      BY <1>8, <2>3 DEF StartCommit, Conclude
    <3>2. WizardType' /\ ProbedIsTyped' /\ ServerWasReached'
      BY <2>1, <3>1, WizardGone DEF WizardType
    <3>3. CommitsAreCurrent' /\ UserHasLastWord'
      BY <2>1, <3>1 DEF CommitsAreCurrent, UserHasLastWord
    <3> QED
      BY <3>2, <3>3
  <2> QED
    BY <2>2, <2>3
<1>9. ASSUME NEW c \in commits, EndCommit(c)
      PROVE  OnboardingInv'
  <2>1. commits' = commits \ {c} /\ settings' = c.base /\ UnmountWizard /\ UNCHANGED <<exposed, acts>>
    BY <1>9 DEF EndCommit, Conclude
  <2>2. WizardType' /\ ProbedIsTyped' /\ ServerWasReached'
    BY <2>1, WizardGone DEF WizardType
  <2>3. CommitsAreCurrent' /\ UserHasLastWord'
    BY <2>1 DEF CommitsAreCurrent, UserHasLastWord
  <2> QED
    BY <2>2, <2>3
<1>10. CASE EditSettings \/ SignOut
  <2>1. /\ acts' = acts + 1 /\ settings' = acts + 1
        /\ UNCHANGED <<wizardVars, commits>>
    BY <1>10 DEF EditSettings, SignOut, Act
  <2>2. exposed' = (commits # {})
    BY <1>10 DEF EditSettings, SignOut, Act
  <2>3. WizardType' /\ ProbedIsTyped' /\ ServerWasReached'
    BY <2>1 DEF WizardType, ProbedIsTyped, ServerWasReached, wizardVars
  <2>4. CommitsAreCurrent'
    BY <2>1, <2>2 DEF CommitsAreCurrent
  <2>5. UserHasLastWord'
    BY <2>1 DEF UserHasLastWord
  <2> QED
    BY <2>3, <2>4, <2>5
<1>11. CASE Login
  <2>1. UNCHANGED <<wiz, probes, reached, crossed, rushed, storeVars>>
    BY <1>11 DEF Login
  <2>2. ProbedIsTyped' /\ ServerWasReached'
    BY <2>1 DEF ProbedIsTyped, ServerWasReached
  <2> QED
    BY <1>0, <2>1, <2>2, WizardMoves
<1>12. CASE UNCHANGED onboardingVars
  BY <1>12 DEF onboardingVars, wizardVars, storeVars, WizardType, ProbedIsTyped, ServerWasReached,
               CommitsAreCurrent, UserHasLastWord
<1> QED
  BY <1>1, <1>2, <1>3, <1>4, <1>5, <1>6, <1>7, <1>8, <1>9, <1>10, <1>11, <1>12 DEF ONext

-----------------------------------------------------------------------------
(* The dialog that connects an account *)

TryRecords ==
    [mount : Nat, pc : {"none", "starting", "initial", "set", "failed"}, ticking : BOOLEAN,
     armed : BOOLEAN, base : Nat, late : BOOLEAN, at : Nat, told : Int]

DialogRecords == [shown : {"open", "leaving", "gone"}, mount : Nat, phase : {"pick", "waiting"}]

PoolType ==
    /\ pool \in Nat /\ added \in Nat /\ nTries \in Nat
    /\ dialog \in DialogRecords
    /\ dialog.shown # "gone" => dialog.mount \in Mounts
    /\ tries \in [Tries -> TryRecords]
    /\ latest \in [Mounts -> Nat]
    /\ asked \subseteq Tries \X Nat

(* How a try gets along; its timers are set once it has a base.            *)
TryLife ==
    \A i \in Tries :
        /\ tries[i].pc # "none" => tries[i].mount \in Mounts /\ tries[i].mount <= dialog.mount
        /\ i > nTries => tries[i].pc = "none"
        /\ tries[i].armed => tries[i].ticking
        /\ tries[i].ticking => tries[i].pc = "set"
        /\ tries[i].pc # "set" => tries[i].told = -1

(* The list is no longer than what was added since the base was read       *)
(* accounts for, and so is every list that a poll in flight will bring.    *)
AddedSince ==
    /\ \A i \in Tries : tries[i].pc = "set" => pool - tries[i].base <= added - tries[i].at
    /\ \A a \in asked : /\ tries[a[1]].pc = "set"
                         /\ a[2] - tries[a[1]].base <= added - tries[a[1]].at

(* In a mount that never had two tries under way the one that is has the   *)
(* mount's refs, and a dialog that waits for it.                           *)
OneAtATime ==
    \A i \in Tries :
        UnderWay(i) /\ tries[i].mount \notin doubled =>
            /\ \A j \in Tries : UnderWay(j) /\ tries[j].mount = tries[i].mount => j = i
            /\ tries[i].ticking => latest[tries[i].mount] = i
            /\ tries[i].pc = "initial" /\ InDialog(tries[i].mount) => dialog.phase = "waiting"

PoolInv == PoolType /\ TryLife /\ AddedSince /\ AddedIsTrue /\ OneAtATime /\ NoStrayPolling

(* Two records of one try that tell of the same place, base and success.   *)
SameTry(t, s) ==
    /\ t.mount = s.mount /\ t.pc = s.pc /\ t.base = s.base
    /\ t.late = s.late /\ t.at = s.at /\ t.told = s.told

(* stopPolling takes timers away from the try the refs belong to, and      *)
(* leaves every other try what it was.                                     *)
LEMMA StopKeeps ==
    ASSUME NEW ts \in [Tries -> TryRecords], NEW m
    PROVE  /\ StopPolling(ts, m) \in [Tries -> TryRecords]
           /\ \A i \in Tries :
                 /\ SameTry(StopPolling(ts, m)[i], ts[i])
                 /\ i = latest[m] => ~StopPolling(ts, m)[i].ticking /\ ~StopPolling(ts, m)[i].armed
                 /\ i # latest[m] => StopPolling(ts, m)[i] = ts[i]
<1>1. \A i \in Tries :
         LET t == [ts[i] EXCEPT !.armed = FALSE, !.ticking = FALSE]
         IN  t \in TryRecords /\ SameTry(t, ts[i]) /\ ~t.ticking /\ ~t.armed
  BY DEF TryRecords, SameTry
<1>2. \A i \in Tries : ts[i] \in TryRecords /\ SameTry(ts[i], ts[i])
  BY DEF SameTry
<1> QED
  BY <1>1, <1>2 DEF StopPolling

(* The dialog starts out with no try and no account.                       *)
LEMMA PoolStarts == PInit => PoolInv
<1> SUFFICES ASSUME PInit PROVE PoolInv
  OBVIOUS
<1>1. /\ pool = 0 /\ added = 0 /\ nTries = 0 /\ asked = {}
      /\ dialog = [shown |-> "gone", mount |-> 0, phase |-> "pick"]
      /\ \A i \in Tries : tries[i] = NoTry
  BY DEF PInit
<1>2. NoTry \in TryRecords /\ NoTry.pc = "none" /\ ~NoTry.armed /\ ~NoTry.ticking /\ NoTry.told = -1
  BY DEF NoTry, TryRecords
<1>3. PoolType
  BY <1>1, <1>2 DEF PInit, PoolType, DialogRecords
<1>4. TryLife /\ AddedSince /\ AddedIsTrue /\ OneAtATime /\ NoStrayPolling
  BY <1>1, <1>2 DEF TryLife, AddedSince, AddedIsTrue, OneAtATime, NoStrayPolling, UnderWay
<1> QED
  BY <1>3, <1>4 DEF PoolInv

(* A dialog that is on the page if the present one is, in the same phase.  *)
StillShown(d) == d.phase = dialog.phase /\ (dialog.shown # "gone" => d.shown # "gone")

(* The tries ts and the dialog d are what the tries and the dialog were,   *)
(* but for timers that ended, a success that was announced truly, and a    *)
(* dialog that goes, comes back, or offers the providers again; no         *)
(* interval is left behind, and no dialog with a try of its own stops      *)
(* waiting.                                                                *)
OnlyEnds(ts, d) ==
    /\ ts \in [Tries -> TryRecords]
    /\ d \in DialogRecords
    /\ d.mount = dialog.mount /\ (d.shown # "gone" => dialog.shown # "gone")
    /\ \A i \in Tries :
          /\ ts[i].mount = tries[i].mount /\ ts[i].pc = tries[i].pc /\ ts[i].base = tries[i].base
          /\ ts[i].late = tries[i].late /\ ts[i].at = tries[i].at
          /\ ts[i].ticking => tries[i].ticking
          /\ ts[i].armed => ts[i].ticking
          /\ \/ ts[i].told = tries[i].told
             \/ tries[i].pc = "set" /\ ts[i].told = added /\ added > tries[i].at
    /\ \A i \in Tries :
          tries[i].mount \notin doubled =>
             /\ ts[i].ticking => StillShown(d) \/ tries[i].mount # dialog.mount
             /\ tries[i].pc = "initial" /\ tries[i].mount = dialog.mount
                   => d.phase = dialog.phase \/ d.shown = "gone"

(* A step that does no more than that keeps the invariant.                 *)
LEMMA TimersEnd ==
    ASSUME PoolInv, UNCHANGED <<pool, added, nTries, latest, doubled>>, asked' \subseteq asked,
           NEW ts, tries' = ts, NEW d, dialog' = d, OnlyEnds(ts, d)
    PROVE  PoolInv'
<1> USE DEF OnlyEnds, StillShown
<1> USE DEF PoolInv
<1>1. PoolType'
  BY DEF PoolType
<1>2. TryLife'
  BY DEF TryLife
<1>3. AddedSince'
  BY DEF AddedSince, PoolType
<1>4. AddedIsTrue'
  BY DEF AddedIsTrue
<1>5. OneAtATime'
  BY DEF OneAtATime, UnderWay, InDialog, TryLife
<1>6. NoStrayPolling'
  BY DEF NoStrayPolling, InDialog
<1> QED
  BY <1>1, <1>2, <1>3, <1>4, <1>5, <1>6

(* Every step of the page of accounts, of a dialog that may be gone, and   *)
(* of the server keeps the invariant.                                      *)
LEMMA PoolStep == PoolInv /\ [PNext]_poolVars => PoolInv'
<1> SUFFICES ASSUME PoolInv, [PNext]_poolVars
             PROVE  PoolInv'
  OBVIOUS
<1> USE DEF PoolInv
<1>0. /\ tries \in [Tries -> TryRecords]
      /\ dialog \in DialogRecords
  BY DEF PoolType
<1>1. CASE Open
  <2> DEFINE d == [shown |-> "open", mount |-> dialog.mount + 1, phase |-> "pick"]
  <2>1. /\ dialog.shown = "gone" /\ dialog.mount < MaxMounts /\ dialog' = d
        /\ UNCHANGED <<pool, added, nTries, tries, latest, asked, doubled>>
    BY <1>1 DEF Open
  <2>2. /\ d \in DialogRecords
        /\ d.mount = dialog.mount + 1 /\ d.mount \in Mounts
    BY <1>0, <2>1, PoolBounds DEF Mounts, DialogRecords
  <2> HIDE DEF d
  <2>3. PoolType' /\ AddedSince' /\ AddedIsTrue'
    BY <2>1, <2>2 DEF PoolType, AddedSince, AddedIsTrue
  <2>4. TryLife'
    BY <1>0, <2>1, <2>2 DEF TryLife, TryRecords, Mounts, DialogRecords
  <2>5. \A i \in Tries : tries[i].pc # "none" => tries[i].mount # d.mount
    BY <1>0, <2>2 DEF TryLife, TryRecords, DialogRecords
  <2>6. OneAtATime'
    BY <2>1, <2>5 DEF OneAtATime, UnderWay, InDialog
  <2>7. NoStrayPolling'
    BY <2>1 DEF NoStrayPolling, InDialog
  <2> QED
    BY <2>3, <2>4, <2>6, <2>7
<1>2. CASE Reopen \/ Close
  <2>1. PICK v \in {"open", "leaving"} :
           /\ dialog.shown # "gone" /\ dialog' = [dialog EXCEPT !.shown = v] /\ tries' = tries
           /\ UNCHANGED <<pool, added, nTries, latest, asked, doubled>>
    BY <1>2 DEF Reopen, Close
  <2> DEFINE d == [dialog EXCEPT !.shown = v]
  <2>2. d \in DialogRecords /\ d.mount = dialog.mount /\ d.phase = dialog.phase /\ d.shown = v
    BY <1>0 DEF DialogRecords
  <2>4. dialog' = d
    BY <2>1
  <2> HIDE DEF d
  <2>3. OnlyEnds(tries, d)
    BY <1>0, <2>1, <2>2 DEF OnlyEnds, StillShown, TryLife
  <2> QED
    BY <2>1, <2>3, <2>4, TimersEnd
<1>11. CASE Unmount
  <2> DEFINE ts == StopPolling(tries, dialog.mount)
             d == [dialog EXCEPT !.shown = "gone"]
  <2>1. /\ dialog.shown # "gone" /\ dialog' = d /\ tries' = ts
        /\ UNCHANGED <<pool, added, nTries, latest, asked, doubled>>
    BY <1>11 DEF Unmount
  <2>2. d \in DialogRecords /\ d.mount = dialog.mount /\ d.shown = "gone"
    BY <1>0 DEF DialogRecords
  <2>3. /\ ts \in [Tries -> TryRecords]
        /\ \A i \in Tries : /\ SameTry(ts[i], tries[i])
                            /\ i = latest[dialog.mount] => ~ts[i].ticking /\ ~ts[i].armed
                            /\ i # latest[dialog.mount] => ts[i] = tries[i]
    BY <1>0, StopKeeps
  <2> HIDE DEF ts, d
  <2>4. \A i \in Tries :
           tries[i].mount \notin doubled /\ ts[i].ticking => tries[i].mount # dialog.mount
    BY <2>3 DEF OneAtATime, UnderWay
  <2>5. \A i \in Tries : ts[i].armed => ts[i].ticking
    BY <2>3 DEF TryLife
  <2>6. OnlyEnds(ts, d)
    BY <2>1, <2>2, <2>3, <2>4, <2>5 DEF SameTry, OnlyEnds
  <2> QED
    BY <2>1, <2>6, TimersEnd
<1>3. CASE PickProvider
  <2> DEFINE k == nTries + 1
             t == [NoTry EXCEPT !.mount = dialog.mount, !.pc = "starting"]
  <2>1. /\ dialog.shown # "gone" /\ dialog.phase = "pick" /\ nTries < MaxTries
        /\ nTries' = k /\ tries' = [tries EXCEPT ![k] = t]
        /\ UNCHANGED <<pool, added, dialog, latest, asked>>
    BY <1>3 DEF PickProvider
  <2>2. /\ doubled \subseteq doubled'
        /\ dialog.mount \notin doubled' =>
              \A i \in Tries : tries[i].mount = dialog.mount => ~UnderWay(i)
    BY <1>3 DEF PickProvider
  <2>3. k \in Tries /\ k > nTries /\ tries[k].pc = "none"
    BY <2>1, PoolBounds DEF Tries, PoolType, TryLife
  <2>4. /\ t \in TryRecords /\ t.mount = dialog.mount /\ t.pc = "starting" /\ ~t.armed /\ ~t.ticking
        /\ t.told = -1
    <3>0. NoTry \in TryRecords /\ ~NoTry.armed /\ ~NoTry.ticking /\ NoTry.told = -1
      BY DEF NoTry, TryRecords
    <3>1. \A n \in Nat :
             LET r == [NoTry EXCEPT !.mount = n, !.pc = "starting"]
             IN  r \in TryRecords /\ r.mount = n /\ r.pc = "starting" /\ ~r.armed /\ ~r.ticking /\ r.told = -1
      BY <3>0 DEF TryRecords
    <3>2. dialog.mount \in Nat
      BY <1>0 DEF DialogRecords
    <3> QED
      BY <3>1, <3>2
  <2> HIDE DEF k, t
  <2>5. /\ tries' \in [Tries -> TryRecords] /\ tries'[k] = t
        /\ \A i \in Tries : i # k => tries'[i] = tries[i]
    BY <1>0, <2>1, <2>3, <2>4
  <2>6. PoolType'
    BY <2>1, <2>3, <2>5 DEF PoolType, k
  <2>7. TryLife'
    BY <2>1, <2>3, <2>4, <2>5 DEF TryLife, PoolType, DialogRecords, k, Tries
  <2>8. AddedSince' /\ AddedIsTrue'
    BY <2>1, <2>3, <2>4, <2>5 DEF AddedSince, AddedIsTrue, PoolType
  <2>9. OneAtATime'
    BY <2>1, <2>2, <2>3, <2>4, <2>5 DEF OneAtATime, UnderWay, InDialog
  <2>10. NoStrayPolling'
    BY <2>1, <2>2, <2>4, <2>5 DEF NoStrayPolling, InDialog
  <2> QED
    BY <2>6, <2>7, <2>8, <2>9, <2>10
<1>4. ASSUME NEW i \in Tries, AddAnswered(i)
      PROVE  PoolInv'
  <2>1. PICK c \in {"failed", "initial"} :
           /\ tries' = [tries EXCEPT ![i].pc = c]
           /\ dialog' = IF c = "initial" /\ InDialog(tries[i].mount)
                        THEN [dialog EXCEPT !.phase = "waiting"] ELSE dialog
    BY <1>4 DEF AddAnswered
  <2>2. /\ tries[i].pc = "starting"
        /\ UNCHANGED <<pool, added, nTries, latest, asked, doubled>>
    BY <1>4 DEF AddAnswered
  <2>3. \A q \in {"failed", "initial"} :
           LET t == [tries[i] EXCEPT !.pc = q]
           IN  /\ t \in TryRecords /\ t.pc = q /\ t.mount = tries[i].mount /\ t.told = tries[i].told
               /\ t.ticking = tries[i].ticking /\ t.armed = tries[i].armed /\ t.at = tries[i].at
    BY <1>0 DEF TryRecords
  <2>4. PICK t \in TryRecords :
           /\ tries' = [tries EXCEPT ![i] = t]
           /\ t.pc = c /\ t.mount = tries[i].mount /\ t.told = tries[i].told
           /\ t.ticking = tries[i].ticking /\ t.armed = tries[i].armed /\ t.at = tries[i].at
    BY <2>1, <2>3
  <2>5. /\ tries' \in [Tries -> TryRecords] /\ tries'[i] = t
        /\ \A j \in Tries : j # i => tries'[j] = tries[j]
    BY <1>0, <2>4
  <2>6. PICK d \in DialogRecords :
           /\ dialog' = d /\ d.mount = dialog.mount /\ d.shown = dialog.shown
           /\ d.phase = "pick" => dialog.phase = "pick"
           /\ c = "initial" /\ InDialog(tries[i].mount) => d.phase = "waiting"
    BY <1>0, <2>1 DEF DialogRecords
  <2>7. PoolType'
    BY <2>2, <2>5, <2>6 DEF PoolType
  <2>8. ~tries[i].ticking /\ ~tries[i].armed /\ tries[i].told = -1 /\ tries[i].mount \in Mounts
    BY <2>2 DEF TryLife
  <2>9. TryLife'
    BY <2>2, <2>4, <2>5, <2>6, <2>8 DEF TryLife
  <2>10. AddedSince' /\ AddedIsTrue'
    BY <2>2, <2>4, <2>5 DEF AddedSince, AddedIsTrue, PoolType
  <2>11. OneAtATime'
    BY <2>2, <2>4, <2>5, <2>6, <2>8 DEF OneAtATime, UnderWay, InDialog, DialogRecords
  <2>12. NoStrayPolling'
    BY <2>2, <2>4, <2>5, <2>6, <2>8 DEF NoStrayPolling, InDialog, DialogRecords
  <2> QED
    BY <2>7, <2>9, <2>10, <2>11, <2>12
<1>5. ASSUME NEW i \in Tries, InitialAnswered(i)
      PROVE  PoolInv'
  <2>1. /\ tries[i].pc = "initial"
        /\ UNCHANGED <<pool, added, dialog, nTries, asked, doubled>>
    BY <1>5 DEF InitialAnswered
  <2>2. ~tries[i].ticking /\ ~tries[i].armed /\ tries[i].told = -1 /\ tries[i].mount \in Mounts /\ i <= nTries
    BY <2>1 DEF TryLife, PoolType, Tries
  <2>3. CASE tries' = [tries EXCEPT ![i].pc = "failed"] /\ UNCHANGED latest
    <3> DEFINE t == [tries[i] EXCEPT !.pc = "failed"]
    <3>1. /\ t \in TryRecords /\ t.pc = "failed" /\ t.mount = tries[i].mount /\ t.told = tries[i].told
          /\ t.ticking = tries[i].ticking /\ t.armed = tries[i].armed
      BY <1>0 DEF TryRecords
    <3>2. /\ tries' \in [Tries -> TryRecords] /\ tries'[i] = t
          /\ \A j \in Tries : j # i => tries'[j] = tries[j]
      BY <1>0, <2>3, <3>1
    <3> HIDE DEF t
    <3>3. PoolType'
      BY <2>1, <2>3, <3>2 DEF PoolType
    <3>4. TryLife'
      BY <2>1, <2>2, <3>1, <3>2 DEF TryLife
    <3>5. AddedSince' /\ AddedIsTrue'
      BY <2>1, <2>2, <3>1, <3>2 DEF AddedSince, AddedIsTrue, PoolType
    <3>6. OneAtATime'
      BY <2>1, <2>2, <2>3, <3>1, <3>2 DEF OneAtATime, UnderWay, InDialog
    <3>7. NoStrayPolling'
      BY <2>1, <2>2, <3>1, <3>2 DEF NoStrayPolling, InDialog
    <3> QED
      BY <3>3, <3>4, <3>5, <3>6, <3>7
  <2>4. ASSUME tries' = [tries EXCEPT ![i] =
                           [@ EXCEPT !.pc = "set", !.ticking = TRUE, !.armed = TRUE,
                                     !.base = pool, !.at = added,
                                     !.late = ~InDialog(tries[i].mount)]],
               latest' = [latest EXCEPT ![tries[i].mount] = i]
        PROVE  PoolInv'
    <3>1. PICK t \in TryRecords :
             /\ tries' = [tries EXCEPT ![i] = t]
             /\ t.pc = "set" /\ t.mount = tries[i].mount /\ t.told = -1 /\ t.ticking /\ t.armed
             /\ t.base = pool /\ t.at = added /\ (~t.late => InDialog(tries[i].mount))
      <4>1. \A b \in BOOLEAN :
               LET t == [tries[i] EXCEPT !.pc = "set", !.ticking = TRUE, !.armed = TRUE,
                                         !.base = pool, !.at = added, !.late = b]
               IN  /\ t \in TryRecords /\ t.late = b
                   /\ t.pc = "set" /\ t.mount = tries[i].mount /\ t.told = tries[i].told
                   /\ t.ticking /\ t.armed /\ t.base = pool /\ t.at = added
        BY <1>0 DEF TryRecords, PoolType
      <4>2. (~InDialog(tries[i].mount)) \in BOOLEAN
        OBVIOUS
      <4> QED
        BY <2>2, <2>4, <4>1, <4>2
    <3>2. /\ tries' \in [Tries -> TryRecords] /\ tries'[i] = t
          /\ \A j \in Tries : j # i => tries'[j] = tries[j]
      BY <1>0, <3>1
    <3>3. /\ latest' \in [Mounts -> Nat] /\ latest'[tries[i].mount] = i
          /\ \A m \in Mounts : m # tries[i].mount => latest'[m] = latest[m]
      BY <2>2, <2>4 DEF PoolType, Tries
    <3>4. PoolType'
      BY <2>1, <3>2, <3>3 DEF PoolType
    <3>5. TryLife'
      BY <2>1, <2>2, <3>1, <3>2 DEF TryLife, PoolType, Tries
    <3>6. AddedSince' /\ AddedIsTrue'
      BY <2>1, <2>2, <3>1, <3>2 DEF AddedSince, AddedIsTrue, PoolType
    <3>7. \A j \in Tries : tries[j].ticking => tries[j].mount \in Mounts
      BY DEF TryLife
    <3>8. OneAtATime'
      BY <2>1, <2>2, <3>1, <3>2, <3>3, <3>7 DEF OneAtATime, UnderWay, InDialog
    <3>9. NoStrayPolling'
      BY <2>1, <2>2, <3>1, <3>2 DEF NoStrayPolling, InDialog, OneAtATime, UnderWay
    <3> QED
      BY <3>4, <3>5, <3>6, <3>8, <3>9
  <2> QED
    BY <1>5, <2>3, <2>4 DEF InitialAnswered
<1>6. ASSUME NEW i \in Tries, Tick(i)
      PROVE  PoolInv'
  <2>1. /\ tries[i].ticking /\ asked' = asked \cup {<<i, pool>>}
        /\ UNCHANGED <<pool, added, dialog, nTries, tries, latest, doubled>>
    BY <1>6 DEF Tick
  <2>2. tries[i].pc = "set"
    BY <2>1 DEF TryLife
  <2>3. PoolType' /\ TryLife' /\ AddedIsTrue'
    BY <2>1 DEF PoolType, TryLife, AddedIsTrue
  <2>4. AddedSince'
    BY <2>1, <2>2 DEF AddedSince
  <2>5. OneAtATime' /\ NoStrayPolling'
    BY <2>1 DEF OneAtATime, NoStrayPolling, UnderWay, InDialog
  <2> QED
    BY <2>3, <2>4, <2>5
<1>7. ASSUME NEW a \in asked, PollAnswered(a[1], a[2])
      PROVE  PoolInv'
  <2>1. a[1] \in Tries /\ a[2] \in Nat
    BY DEF PoolType
  <2> DEFINE i == a[1]
             stopped == StopPolling(tries, tries[i].mount)
  <2>2. /\ asked' = asked \ {<<a[1], a[2]>>}
        /\ UNCHANGED <<pool, added, nTries, latest, doubled>>
    BY <1>7 DEF PollAnswered
  <2>3. CASE ~Longer(i, a[2])
    <3>1. UNCHANGED <<dialog, tries>>
      BY <1>7, <2>3 DEF PollAnswered
    <3>2. PoolType' /\ TryLife' /\ AddedSince' /\ AddedIsTrue'
      BY <2>2, <3>1 DEF PoolType, TryLife, AddedSince, AddedIsTrue
    <3>3. OneAtATime' /\ NoStrayPolling'
      BY <2>2, <3>1 DEF OneAtATime, NoStrayPolling, UnderWay, InDialog
    <3> QED
      BY <3>2, <3>3
  <2>4. CASE Longer(i, a[2])
    <3> DEFINE d == [dialog EXCEPT !.shown = IF @ = "open" THEN "leaving" ELSE @]
               ts == [stopped EXCEPT ![i].told = IF @ = -1 THEN added ELSE @]
    <3>1. dialog' = d /\ tries' = ts
      BY <1>7, <2>4 DEF PollAnswered
    <3>2. tries[i].pc = "set" /\ added > tries[i].at
      BY <1>0, <2>1, <2>4 DEF Longer, AddedSince, PoolType, TryRecords
    <3>3. d \in DialogRecords /\ d.mount = dialog.mount /\ StillShown(d) /\ (d.shown = "gone" <=> dialog.shown = "gone")
      BY <1>0 DEF DialogRecords, StillShown
    <3>4. /\ stopped \in [Tries -> TryRecords]
          /\ \A j \in Tries :
                /\ SameTry(stopped[j], tries[j])
                /\ stopped[j] = tries[j] \/ (~stopped[j].ticking /\ ~stopped[j].armed)
      BY <1>0, StopKeeps
    <3> HIDE DEF stopped
    <3>5. \A n \in Int : LET t == [stopped[i] EXCEPT !.told = n]
                        IN  /\ t \in TryRecords /\ t.told = n /\ t.mount = stopped[i].mount
                            /\ t.pc = stopped[i].pc /\ t.base = stopped[i].base
                            /\ t.late = stopped[i].late /\ t.at = stopped[i].at
                            /\ t.ticking = stopped[i].ticking /\ t.armed = stopped[i].armed
      BY <2>1, <3>4 DEF TryRecords
    <3>6. PICK n \in Int : /\ n = tries[i].told \/ n = added
                          /\ ts = [stopped EXCEPT ![i] = [stopped[i] EXCEPT !.told = n]]
      <4> DEFINE n == IF stopped[i].told = -1 THEN added ELSE stopped[i].told
      <4>1. stopped[i].told = tries[i].told /\ stopped[i].told \in Int /\ added \in Int
        BY <2>1, <3>4 DEF SameTry, TryRecords, PoolType
      <4>2. n \in Int /\ (n = tries[i].told \/ n = added)
        BY <4>1
      <4>3. ts = [stopped EXCEPT ![i] = [stopped[i] EXCEPT !.told = n]]
        OBVIOUS
      <4> HIDE DEF ts, n
      <4> QED
        BY <4>2, <4>3
    <3> HIDE DEF d, ts
    <3>7. /\ ts \in [Tries -> TryRecords]
          /\ \A j \in Tries :
                /\ ts[j].mount = tries[j].mount /\ ts[j].pc = tries[j].pc /\ ts[j].base = tries[j].base
                /\ ts[j].late = tries[j].late /\ ts[j].at = tries[j].at
                /\ ts[j].ticking = stopped[j].ticking /\ ts[j].armed = stopped[j].armed
                /\ \/ ts[j].told = tries[j].told
                   \/ tries[j].pc = "set" /\ ts[j].told = added /\ added > tries[j].at
      BY <2>1, <3>2, <3>4, <3>5, <3>6 DEF SameTry
    <3>8. \A j \in Tries : (ts[j].ticking => tries[j].ticking) /\ (ts[j].armed => ts[j].ticking)
      BY <3>4, <3>7 DEF TryLife
    <3>9. OnlyEnds(ts, d)
      BY <3>3, <3>7, <3>8 DEF OnlyEnds, StillShown
    <3> QED
      BY <2>2, <3>1, <3>9, TimersEnd
  <2> QED
    BY <2>3, <2>4
<1>8. ASSUME NEW i \in Tries, TimeOut(i)
      PROVE  PoolInv'
  <2> DEFINE stopped == StopPolling(tries, tries[i].mount)
             ts == [stopped EXCEPT ![i].armed = FALSE]
             d == IF InDialog(tries[i].mount) THEN [dialog EXCEPT !.phase = "pick"] ELSE dialog
  <2>1. /\ tries[i].armed /\ tries' = ts /\ dialog' = d
        /\ UNCHANGED <<pool, added, nTries, latest, asked, doubled>>
    BY <1>8 DEF TimeOut
  <2>2. /\ stopped \in [Tries -> TryRecords]
        /\ \A j \in Tries :
              /\ SameTry(stopped[j], tries[j])
              /\ stopped[j] = tries[j] \/ (~stopped[j].ticking /\ ~stopped[j].armed)
              /\ j = latest[tries[i].mount] => ~stopped[j].ticking
    BY <1>0, StopKeeps
  <2>3. LET t == [stopped[i] EXCEPT !.armed = FALSE]
        IN  t \in TryRecords /\ SameTry(t, stopped[i]) /\ t.ticking = stopped[i].ticking /\ ~t.armed
    <3> HIDE DEF stopped
    <3>1. stopped[i] \in TryRecords
      BY <2>2
    <3>2. \A t \in TryRecords :
             LET u == [t EXCEPT !.armed = FALSE]
             IN  u \in TryRecords /\ SameTry(u, t) /\ u.ticking = t.ticking /\ ~u.armed
      BY DEF TryRecords, SameTry
    <3> QED
      BY <3>1, <3>2
  <2>4. /\ d \in DialogRecords
        /\ d.mount = dialog.mount /\ d.shown = dialog.shown
        /\ d = dialog \/ InDialog(tries[i].mount)
    BY <1>0 DEF DialogRecords
  <2> HIDE DEF stopped
  <2>5. /\ ts \in [Tries -> TryRecords]
        /\ \A j \in Tries : SameTry(ts[j], tries[j]) /\ ts[j].ticking = stopped[j].ticking
        /\ \A j \in Tries : ts[j].armed => j # i /\ ts[j].armed = stopped[j].armed
    BY <2>2, <2>3 DEF SameTry
  <2> HIDE DEF ts, d
  <2>6. \A j \in Tries : /\ ts[j].ticking => tries[j].ticking
                         /\ ts[j].armed => ts[j].ticking
                         /\ j = latest[tries[i].mount] => ~ts[j].ticking
    BY <2>2, <2>5 DEF TryLife
  <2>7. tries[i].ticking /\ tries[i].pc = "set"
    BY <2>1 DEF TryLife
  <2>8. \A j \in Tries :
           tries[j].mount \notin doubled =>
              /\ ts[j].ticking => StillShown(d) \/ tries[j].mount # dialog.mount
              /\ tries[j].pc = "initial" /\ tries[j].mount = dialog.mount => d.phase = dialog.phase
    BY <2>4, <2>6, <2>7 DEF OneAtATime, UnderWay, InDialog, StillShown
  <2>9. OnlyEnds(ts, d)
    BY <2>4, <2>5, <2>6, <2>8 DEF SameTry, OnlyEnds
  <2> QED
    BY <2>1, <2>9, TimersEnd
<1>9. CASE Authorize \/ RemoveAccount
  <2>1. /\ \/ added' = added + 1 /\ pool' = pool + 1
           \/ added' = added /\ pool > 0 /\ pool' = pool - 1
        /\ UNCHANGED <<dialog, nTries, tries, latest, asked, doubled>>
    BY <1>9 DEF Authorize, RemoveAccount
  <2>2. PoolType' /\ TryLife' /\ AddedIsTrue'
    BY <2>1 DEF PoolType, TryLife, AddedIsTrue
  <2>3. AddedSince'
    BY <1>0, <2>1 DEF AddedSince, PoolType, TryRecords
  <2>4. OneAtATime' /\ NoStrayPolling'
    BY <2>1 DEF OneAtATime, NoStrayPolling, UnderWay, InDialog
  <2> QED
    BY <2>2, <2>3, <2>4
<1>10. CASE UNCHANGED poolVars
  BY <1>10 DEF poolVars, PoolType, TryLife, AddedSince, AddedIsTrue, OneAtATime, NoStrayPolling, UnderWay, InDialog
<1> QED
  BY <1>1, <1>2, <1>3, <1>4, <1>5, <1>6, <1>7, <1>8, <1>9, <1>10, <1>11 DEF PNext

-----------------------------------------------------------------------------
(* The chat *)

SendRecords == [pc : {"none", "create", "request", "read", "ended"}, bar : Bars \cup {Nil}, aborted : BOOLEAN]

ChatType ==
    /\ sends \in [Sends -> SendRecords]
    /\ \A i \in Sends : sends[i].pc # "none" => sends[i].bar \in Bars
    /\ bar \in Bars
    /\ DOMAIN abortOf = Bars

(* Without a second send beside it, the send in flight is the newest.      *)
FlightIsNewest == ~crowded => \A i \in Sends : InFlight(i) => i = newest

(* While a stream is shown, the bar it was sent from can abort the newest. *)
NewestIsAbortable ==
    streaming => /\ newest \in Sends /\ sends[newest].pc \notin {"none", "create"}
                 /\ abortOf[sends[newest].bar] = newest

ChatInv ==
    /\ ChatType /\ FlightIsNewest /\ NewestIsAbortable
    /\ ~crowded => streamed \subseteq {newest}

(* The chat starts out on one bar, with nothing sent.                      *)
LEMMA ChatStarts == ChInit => ChatInv
<1> SUFFICES ASSUME ChInit PROVE ChatInv
  OBVIOUS
<1>1. NoSend \in SendRecords /\ NoSend.pc = "none"
  BY DEF NoSend, SendRecords
<1>2. 1 \in Bars
  BY ChatBounds DEF Bars
<1> QED
  BY <1>1, <1>2 DEF ChInit, ChatInv, ChatType, FlightIsNewest, NewestIsAbortable, InFlight

(* A send that begins to stream becomes the newest, alone or crowded, and  *)
(* its bar can abort it.                                                   *)
LEMMA BeginKeeps ==
    ASSUME ChatInv, NEW i \in Sends, sends[i].pc \in {"none", "create"}, NEW b \in Bars, Begin(i, b), bar' = bar
    PROVE  ChatInv'
<1> USE DEF ChatInv
<1> DEFINE t == [pc |-> "request", bar |-> b, aborted |-> FALSE]
<1>1. /\ sends' = [sends EXCEPT ![i] = t] /\ abortOf' = [abortOf EXCEPT ![b] = i]
      /\ streamed' = {} /\ newest' = i
  BY DEF Begin, clearStreamingContent
<1>2. t \in SendRecords /\ t.pc = "request" /\ t.bar = b
  BY DEF SendRecords
<1> HIDE DEF t
<1>3. /\ sends' \in [Sends -> SendRecords] /\ sends'[i] = t
      /\ \A j \in Sends : j # i => sends'[j] = sends[j]
  BY <1>1, <1>2 DEF ChatType
<1>4. ChatType'
  BY <1>1, <1>2, <1>3 DEF ChatType
<1>5. ~crowded' => \A j \in Sends \ {i} : ~InFlight(j)
  BY Zenon DEF Begin
<1>6. FlightIsNewest'
  BY <1>1, <1>3, <1>5 DEF FlightIsNewest, InFlight
<1>7. NewestIsAbortable'
  BY <1>1, <1>2, <1>3 DEF NewestIsAbortable, ChatType
<1> QED
  BY <1>1, <1>4, <1>6, <1>7

(* A send that changes its state, and neither begins nor ends a stream.    *)
LEMMA SendMoves ==
    ASSUME ChatInv, NEW i \in Sends, NEW t \in SendRecords, sends' = [sends EXCEPT ![i] = t],
           t.pc # "none" => t.bar \in Bars,
           t.bar = sends[i].bar \/ sends[i].pc = "none",
           t.pc \in {"request", "read"} => InFlight(i),
           t.pc \in {"none", "create"} => ~InFlight(i) /\ sends[i].pc # "ended",
           UNCHANGED <<bar, abortOf, newest, crowded, streamed>>,
           streaming' => streaming
    PROVE  ChatInv'
<1> USE DEF ChatInv
<1>1. /\ sends' \in [Sends -> SendRecords] /\ sends'[i] = t
      /\ \A j \in Sends : j # i => sends'[j] = sends[j]
  BY DEF ChatType
<1>2. ChatType'
  BY <1>1 DEF ChatType
<1>3. FlightIsNewest'
  BY <1>1 DEF FlightIsNewest, InFlight
<1>4. NewestIsAbortable'
  BY <1>1 DEF NewestIsAbortable, InFlight, SendRecords, ChatType
<1> QED
  BY <1>2, <1>3, <1>4

(* The end of a stream, whichever it is, ends what is shown.               *)
LEMMA FinallyKeeps ==
    ASSUME ChatInv, NEW i \in Sends, sends[i].pc # "none", Finally(i), UNCHANGED <<bar, newest, crowded>>
    PROVE  ChatInv'
<1> USE DEF ChatInv
<1> DEFINE t == [sends[i] EXCEPT !.pc = "ended"]
<1>1. /\ sends' = [sends EXCEPT ![i] = t] /\ streaming' = FALSE /\ streamed' = {}
      /\ DOMAIN abortOf' = DOMAIN abortOf
  BY DEF Finally, clearStreamingContent
<1>2. t \in SendRecords /\ t.pc = "ended" /\ t.bar = sends[i].bar
  BY DEF SendRecords, ChatType
<1> HIDE DEF t
<1>3. /\ sends' \in [Sends -> SendRecords] /\ sends'[i] = t
      /\ \A j \in Sends : j # i => sends'[j] = sends[j]
  BY <1>1, <1>2 DEF ChatType
<1>4. ChatType'
  BY <1>1, <1>2, <1>3 DEF ChatType
<1>5. FlightIsNewest'
  BY <1>2, <1>3 DEF FlightIsNewest, InFlight
<1>6. NewestIsAbortable'
  BY <1>1 DEF NewestIsAbortable
<1> QED
  BY <1>1, <1>4, <1>5, <1>6

(* Every step of the chat keeps the invariant.                             *)
LEMMA ChatStep == ChatInv /\ [ChNext]_chatVars => ChatInv'
<1> SUFFICES ASSUME ChatInv, [ChNext]_chatVars
             PROVE  ChatInv'
  OBVIOUS
<1> USE DEF ChatInv
<1>0. /\ sends \in [Sends -> SendRecords] /\ bar \in Bars
      /\ \A i \in Sends : sends[i].pc # "none" => sends[i].bar \in Bars
  BY DEF ChatType
<1>1. CASE Send
  <2>1. PICK i \in Sends :
           /\ sends[i].pc = "none"
           /\ \/ Begin(i, bar) /\ UNCHANGED bar
              \/ /\ sends' = [sends EXCEPT ![i] = [NoSend EXCEPT !.pc = "create", !.bar = bar]]
                 /\ UNCHANGED <<streaming, streamed, bar, abortOf, newest, crowded>>
    BY <1>1 DEF Send, IsNext
  <2>2. \A b \in Bars : LET t == [NoSend EXCEPT !.pc = "create", !.bar = b]
                       IN  t \in SendRecords /\ t.pc = "create" /\ t.bar = b
    BY DEF NoSend, SendRecords
  <2>3. CASE Begin(i, bar) /\ UNCHANGED bar
    BY <1>0, <2>1, <2>3, BeginKeeps
  <2>4. CASE /\ sends' = [sends EXCEPT ![i] = [NoSend EXCEPT !.pc = "create", !.bar = bar]]
             /\ UNCHANGED <<streaming, streamed, bar, abortOf, newest, crowded>>
    BY <1>0, <2>1, <2>2, <2>4, SendMoves DEF InFlight
  <2> QED
    BY <2>1, <2>3, <2>4
<1>2. CASE Stop
  <2>1. /\ streaming' = FALSE /\ UNCHANGED <<streamed, bar, abortOf, newest, crowded>>
        /\ \/ sends' = sends
           \/ sends' = [sends EXCEPT ![abortOf[bar]].aborted = TRUE]
    BY <1>2 DEF Stop
  <2>2. /\ sends' \in [Sends -> SendRecords]
        /\ \A j \in Sends : sends'[j].pc = sends[j].pc /\ sends'[j].bar = sends[j].bar
    <3>1. \A r \in SendRecords : LET t == [r EXCEPT !.aborted = TRUE]
                                IN  t \in SendRecords /\ t.pc = r.pc /\ t.bar = r.bar
      BY DEF SendRecords
    <3>2. CASE sends' = [sends EXCEPT ![abortOf[bar]] = [sends[abortOf[bar]] EXCEPT !.aborted = TRUE]]
      <4> DEFINE k == abortOf[bar]
                 r == [sends[k] EXCEPT !.aborted = TRUE]
      <4>1. k \in Sends => r \in SendRecords /\ r.pc = sends[k].pc /\ r.bar = sends[k].bar
        BY <1>0, <3>1
      <4>2. sends' = [sends EXCEPT ![k] = r]
        BY <3>2
      <4> HIDE DEF k, r
      <4> QED
        BY <1>0, <4>1, <4>2
    <3> QED
      BY <1>0, <2>1, <3>2
  <2>3. ChatType' /\ FlightIsNewest' /\ NewestIsAbortable'
    BY <2>1, <2>2 DEF ChatType, FlightIsNewest, NewestIsAbortable, InFlight
  <2> QED
    BY <2>1, <2>3
<1>3. CASE GoTo
  <2>1. bar < MaxBars /\ bar' = bar + 1 /\ UNCHANGED <<streaming, streamed, abortOf, sends, newest, crowded>>
    BY <1>3 DEF GoTo
  <2>2. ChatType'
    BY <2>1, ChatBounds DEF ChatType, Bars
  <2>3. FlightIsNewest' /\ NewestIsAbortable'
    BY <2>1 DEF FlightIsNewest, NewestIsAbortable, InFlight
  <2> QED
    BY <2>1, <2>2, <2>3
<1>4. ASSUME NEW i \in Sends, Created(i)
      PROVE  ChatInv'
  BY <1>0, <1>4, BeginKeeps DEF Created
<1>5. ASSUME NEW i \in Sends, CreateFails(i) \/ Answered(i)
      PROVE  ChatInv'
  <2>1. PICK q \in {"ended", "read"} :
           /\ sends' = [sends EXCEPT ![i] = [sends[i] EXCEPT !.pc = q]]
           /\ q = "read" => sends[i].pc = "request"
           /\ sends[i].pc # "none"
           /\ UNCHANGED <<streaming, streamed, bar, abortOf, newest, crowded>>
    BY <1>0, <1>5 DEF CreateFails, Answered
  <2>2. \A p \in {"ended", "read"} : LET t == [sends[i] EXCEPT !.pc = p]
                                    IN  t \in SendRecords /\ t.pc = p /\ t.bar = sends[i].bar
    BY <1>0 DEF SendRecords
  <2> QED
    BY <1>0, <2>1, <2>2, SendMoves DEF InFlight
<1>6. ASSUME NEW i \in Sends, Delta(i) \/ Ends(i)
      PROVE  ChatInv'
  <2>1. InFlight(i) /\ sends[i].pc # "none" /\ UNCHANGED <<bar, newest, crowded>>
    BY <1>6 DEF Delta, Ends, InFlight
  <2>2. CASE Finally(i)
    BY <2>1, <2>2, FinallyKeeps
  <2>3. CASE streamed' = streamed \cup {i} /\ UNCHANGED <<streaming, abortOf, sends>>
    <3>1. ChatType' /\ FlightIsNewest' /\ NewestIsAbortable'
      BY <2>1, <2>3 DEF ChatType, FlightIsNewest, NewestIsAbortable, InFlight
    <3>2. ~crowded' => streamed' \subseteq {newest'}
      BY <2>1, <2>3 DEF FlightIsNewest
    <3> QED
      BY <3>1, <3>2
  <2> QED
    BY <1>6, <2>2, <2>3 DEF Delta, Ends
<1>7. CASE UNCHANGED chatVars
  BY <1>7 DEF chatVars, ChatType, FlightIsNewest, NewestIsAbortable, InFlight
<1> QED
  BY <1>1, <1>2, <1>3, <1>4, <1>5, <1>6, <1>7 DEF ChNext, ChStep

-----------------------------------------------------------------------------
(* The voice call *)

CallRecords ==
    [visit : Nat, pc : {"none", "token", "connect", "microphone", "up", "failed"},
     link : {"off", "on", "leaving", "gone"}, hears : BOOLEAN, asked : BOOLEAN,
     text : SUBSET Calls, saved : BOOLEAN, left : BOOLEAN]

CallType ==
    /\ calls \in [Calls -> CallRecords]
    /\ nCalls \in Nat /\ visit \in Nat \ {0}
    /\ transcript \subseteq Calls

(* How a call c of the visit that is open, or of an earlier one, gets      *)
(* along: a room that is connected belongs to a call that awaits its       *)
(* microphone, is up, or was left with it.                                 *)
CallLives(c) ==
    /\ c.link = "on" => c.pc \in {"microphone", "up"} \/ c.left
    /\ c.pc \in {"token", "connect"} => c.link = "off"
    /\ c.pc \in {"token", "connect", "microphone"} /\ c.visit # visit => c.left
    /\ c.asked => c.pc = "up" /\ c.link # "on"

CallLife ==
    \A i \in Calls :
        /\ calls[i].pc # "none" <=> i <= nCalls
        /\ calls[i].pc = "none" => calls[i].link = "off" /\ ~calls[i].asked
        /\ calls[i].visit <= visit
        /\ CallLives(calls[i])

(* The page that shows a call can disconnect it, and it is the newest.     *)
RoomIsHeld ==
    phase = "in-call" =>
        /\ inRoom \in Calls /\ disconnect = inRoom
        /\ Here(inRoom) /\ calls[inRoom].pc = "up"
        /\ visit \notin overtaken => inRoom = nCalls

(* A page that an earlier call left alone shows how far the newest is.     *)
DialIsShown ==
    \A i \in Calls :
        Here(i) /\ i = nCalls /\ visit \notin overtaken =>
            /\ calls[i].pc = "token" => phase = "requesting-token"
            /\ calls[i].pc = "connect" => phase = "connecting"
            /\ calls[i].pc = "microphone" /\ calls[i].link = "on" => phase = "connecting"

(* Unless lines strayed onto it the page has the lines of the newest call, *)
(* and none when a call can be started.                                    *)
LinesAreOwn ==
    visit \notin strayed \cup overtaken =>
        transcript \subseteq {nCalls} /\ (phase = "idle" => transcript = {})

SentIsOwn ==
    \A i \in Calls :
        (calls[i].asked \/ calls[i].saved) /\ calls[i].visit \notin strayed \cup overtaken
            => calls[i].text \subseteq {i}

CallInv ==
    CallType /\ CallLife /\ RoomIsHeld /\ DialIsShown /\ LinesAreOwn /\ SentIsOwn /\ LiveCallIsShown

(* The page starts out idle, with no call.                                 *)
LEMMA CallsStart == CallInit => CallInv
<1> SUFFICES ASSUME CallInit PROVE CallInv
  OBVIOUS
<1>1. /\ Unstarted \in CallRecords /\ Unstarted.pc = "none" /\ Unstarted.link = "off" /\ Unstarted.visit = 0
      /\ ~Unstarted.asked /\ ~Unstarted.saved
  BY DEF Unstarted, CallRecords
<1>2. \A i \in Calls : i \in Int /\ i > 0
  BY CallBounds DEF Calls
<1>3. /\ calls \in [Calls -> CallRecords] /\ \A i \in Calls : calls[i] = Unstarted
      /\ phase = "idle" /\ visit = 1 /\ nCalls = 0 /\ transcript = {}
  BY <1>1 DEF CallInit
<1>4. CallType /\ LinesAreOwn /\ RoomIsHeld
  BY <1>3 DEF CallType, LinesAreOwn, RoomIsHeld
<1>5. CallLife
  BY <1>1, <1>2, <1>3 DEF CallLife, CallLives
<1>6. DialIsShown /\ SentIsOwn /\ LiveCallIsShown
  BY <1>1, <1>3 DEF DialIsShown, SentIsOwn, LiveCallIsShown, Here
<1> QED
  BY <1>4, <1>5, <1>6 DEF CallInv

(* What a step may make of call i, a record t, and of the page.            *)
MovesOn(i, t) ==
    /\ t \in CallRecords /\ t.visit = calls[i].visit /\ t.text = calls[i].text
    /\ t.pc # "none" /\ (calls[i].pc = "up" => t.pc = "up")
    /\ t.asked \/ t.saved => calls[i].asked \/ calls[i].saved
    /\ CallLives(t)
    /\ t.link = "on" => t.pc = "microphone" \/ t.left

(* A step that moves one call on, and shows it if its page is open, keeps  *)
(* the invariant; what it shows is not a call that can be hung up.         *)
LEMMA CallMoves ==
    ASSUME CallInv, NEW i \in Calls, calls[i].pc # "none",
           NEW t, calls' = [calls EXCEPT ![i] = t], MovesOn(i, t),
           UNCHANGED <<inRoom, disconnect, transcript, visit, nCalls, strayed>>,
           overtaken \subseteq overtaken',
           Here(i) /\ visit \notin overtaken' =>
              phase' = phase \/ (i >= nCalls /\ phase' \notin {"in-call", "idle"}),
           ~Here(i) => phase' = phase,
           phase' = phase \/ phase' \notin {"in-call", "idle"},
           Here(i) /\ i = nCalls /\ visit \notin overtaken' =>
              /\ t.pc # "token"
              /\ t.pc = "connect" \/ (t.pc = "microphone" /\ t.link = "on") => phase' = "connecting"
    PROVE  CallInv'
<1> USE DEF CallInv
<1>1. /\ calls' \in [Calls -> CallRecords] /\ calls'[i] = t
      /\ \A j \in Calls : j # i => calls'[j] = calls[j]
  BY DEF CallType, MovesOn
<1>2. CallType'
  BY <1>1 DEF CallType
<1>3. CallLife'
  BY <1>1 DEF CallLife, CallLives, MovesOn
<1>4. i <= nCalls /\ i \in Int /\ nCalls \in Int
  BY DEF CallLife, CallType, Calls
<1>5. RoomIsHeld'
  BY <1>1 DEF RoomIsHeld, Here, MovesOn
<1>6. DialIsShown'
  BY <1>1, <1>4 DEF DialIsShown, Here, MovesOn
<1>7. LinesAreOwn'
  BY DEF LinesAreOwn
<1>8. SentIsOwn'
  BY <1>1 DEF SentIsOwn, MovesOn
<1>9. LiveCallIsShown'
  <2> SUFFICES ASSUME NEW j \in Calls, j # i,
                      calls[j].link = "on", calls[j].pc \in {"up", "failed"}, ~calls[j].left,
                      calls[j].visit \notin overtaken'
               PROVE  Here(j) /\ phase' = "in-call" /\ inRoom = j /\ disconnect = j
    BY <1>1 DEF LiveCallIsShown, Here, MovesOn
  <2>1. Here(j) /\ phase = "in-call" /\ inRoom = j /\ disconnect = j
    BY DEF LiveCallIsShown
  <2>2. visit \notin overtaken' /\ j = nCalls
    BY <2>1 DEF Here, RoomIsHeld
  <2> QED
    BY <1>4, <2>1, <2>2
<1> QED
  BY <1>2, <1>3, <1>5, <1>6, <1>7, <1>8, <1>9

(* Showing phase p of call i on the page, should it be the call's own.     *)
LEMMA ShowTells ==
    ASSUME CallInv, NEW i \in Calls, NEW p, p \notin {"in-call", "idle"}, Show(i, p)
    PROVE  /\ overtaken \subseteq overtaken'
           /\ Here(i) => phase' = p
           /\ ~Here(i) => phase' = phase
           /\ Here(i) /\ visit \notin overtaken' =>
                 phase' = phase \/ (i >= nCalls /\ phase' \notin {"in-call", "idle"})
           /\ phase' = phase \/ phase' \notin {"in-call", "idle"}
<1>1. i \in Int /\ nCalls \in Int
  BY DEF CallInv, CallType, Calls
<1>2. /\ overtaken \subseteq overtaken'
      /\ Here(i) /\ i < nCalls => visit \in overtaken'
  BY DEF Show
<1>3. (Here(i) => phase' = p) /\ (~Here(i) => phase' = phase)
  BY DEF Show
<1> QED
  BY <1>1, <1>2, <1>3

(* The token, the connection, the microphone's failure, the end of the     *)
(* room and the answer to the transcript keep the invariant.               *)
LEMMA ShownStep ==
    ASSUME CallInv, NEW i \in Calls,
           TokenAnswered(i) \/ Connected(i) \/ MicrophoneFails(i) \/ LinkEnds(i) \/ EndAnswered(i)
    PROVE  CallInv'
<1>0. /\ calls[i] \in CallRecords /\ CallLives(calls[i])
      /\ calls[i].pc = "none" => calls[i].link = "off" /\ ~calls[i].asked
  BY DEF CallInv, CallType, CallLife
<1>1. CASE TokenAnswered(i)
  <2>1. PICK q \in {"connect", "failed"} :
           /\ calls' = [calls EXCEPT ![i] = [calls[i] EXCEPT !.pc = q]]
           /\ Show(i, IF q = "connect" THEN "connecting" ELSE "error")
    BY <1>1 DEF TokenAnswered
  <2> DEFINE t == [calls[i] EXCEPT !.pc = q]
  <2>2. calls[i].pc = "token" /\ UNCHANGED <<inRoom, disconnect, transcript, visit, nCalls, strayed>>
    BY <1>1 DEF TokenAnswered
  <2>3. MovesOn(i, t) /\ t.pc = q
    BY <1>0, <2>2 DEF MovesOn, CallRecords, CallLives
  <2> HIDE DEF t
  <2> QED
    BY <2>1, <2>2, <2>3, ShowTells, CallMoves DEF t
<1>2. CASE Connected(i)
  <2>1. calls[i].pc = "connect" /\ UNCHANGED <<inRoom, disconnect, transcript, visit, nCalls, strayed>>
    BY <1>2 DEF Connected
  <2>2. CASE calls' = [calls EXCEPT ![i].pc = "microphone", ![i].link = "on"] /\ UNCHANGED <<phase, overtaken>>
    <3> DEFINE t == [calls[i] EXCEPT !.pc = "microphone", !.link = "on"]
    <3>1. calls' = [calls EXCEPT ![i] = t]
      BY <1>0, <2>2
    <3>2. MovesOn(i, t) /\ t.pc = "microphone"
      BY <1>0, <2>1 DEF MovesOn, CallRecords, CallLives
    <3> HIDE DEF t
    <3>3. Here(i) /\ i = nCalls /\ visit \notin overtaken => phase = "connecting"
      BY <2>1 DEF CallInv, DialIsShown
    <3> QED
      BY <2>1, <2>2, <3>1, <3>2, <3>3, CallMoves
  <2>3. CASE calls' = [calls EXCEPT ![i].pc = "failed"] /\ Show(i, "error")
    <3> DEFINE t == [calls[i] EXCEPT !.pc = "failed"]
    <3>1. calls' = [calls EXCEPT ![i] = t]
      BY <2>3
    <3>2. MovesOn(i, t) /\ t.pc = "failed"
      BY <1>0, <2>1 DEF MovesOn, CallRecords, CallLives
    <3> HIDE DEF t
    <3> QED
      BY <2>1, <2>3, <3>1, <3>2, ShowTells, CallMoves
  <2> QED
    BY <1>2, <2>2, <2>3 DEF Connected
<1>3. CASE MicrophoneFails(i)
  <2> DEFINE t == [calls[i] EXCEPT !.pc = "failed", !.left = TRUE]
  <2>1. /\ calls[i].pc = "microphone" /\ calls' = [calls EXCEPT ![i].pc = "failed", ![i].left = TRUE]
        /\ Show(i, "error") /\ UNCHANGED <<inRoom, disconnect, transcript, visit, nCalls, strayed>>
    BY <1>3 DEF MicrophoneFails
  <2>2. calls' = [calls EXCEPT ![i] = t]
    BY <1>0, <2>1
  <2>3. MovesOn(i, t) /\ t.pc = "failed"
    BY <1>0, <2>1 DEF MovesOn, CallRecords, CallLives
  <2> HIDE DEF t
  <2> QED
    BY <2>1, <2>2, <2>3, ShowTells, CallMoves
<1>4. CASE LinkEnds(i)
  <2> DEFINE t == [calls[i] EXCEPT !.link = "gone"]
  <2>1. /\ calls[i].link \in {"on", "leaving"} /\ calls' = [calls EXCEPT ![i] = t]
        /\ Show(i, "error") /\ UNCHANGED <<inRoom, disconnect, transcript, visit, nCalls, strayed>>
    BY <1>4 DEF LinkEnds
  <2>2. calls[i].pc \notin {"none", "token", "connect"}
    BY <1>0, <2>1 DEF CallLives
  <2>3. MovesOn(i, t) /\ t.pc = calls[i].pc /\ t.link = "gone"
    BY <1>0, <2>1, <2>2 DEF MovesOn, CallRecords, CallLives
  <2> HIDE DEF t
  <2> QED
    BY <2>1, <2>2, <2>3, ShowTells, CallMoves
<1>5. CASE EndAnswered(i)
  <2>1. PICK b \in BOOLEAN :
           /\ calls' = [calls EXCEPT ![i] = [calls[i] EXCEPT !.asked = FALSE, !.saved = b]]
           /\ \E p \in {"saved", "error"} : Show(i, p)
    <3>1. CASE calls' = [calls EXCEPT ![i].asked = FALSE, ![i].saved = TRUE] /\ Show(i, "saved")
      BY <1>0, <3>1
    <3>2. CASE calls' = [calls EXCEPT ![i].asked = FALSE] /\ Show(i, "error")
      <4>1. calls[i].saved \in BOOLEAN /\ [calls[i] EXCEPT !.asked = FALSE]
                = [calls[i] EXCEPT !.asked = FALSE, !.saved = calls[i].saved]
        BY <1>0 DEF CallRecords
      <4> QED
        BY <3>2, <4>1
    <3> QED
      BY <1>5, <3>1, <3>2 DEF EndAnswered
  <2> DEFINE t == [calls[i] EXCEPT !.asked = FALSE, !.saved = b]
  <2>2. calls[i].asked /\ UNCHANGED <<inRoom, disconnect, transcript, visit, nCalls, strayed>>
    BY <1>5 DEF EndAnswered
  <2>3. calls[i].pc = "up" /\ calls[i].link # "on"
    BY <1>0, <2>2 DEF CallLives
  <2>4. MovesOn(i, t) /\ t.pc = "up"
    BY <1>0, <2>2, <2>3 DEF MovesOn, CallRecords, CallLives
  <2> HIDE DEF t
  <2>5. calls' = [calls EXCEPT ![i] = t]
    BY <2>1 DEF t
  <2> QED
    BY <2>1, <2>2, <2>3, <2>4, <2>5, ShowTells, CallMoves
<1> QED
  BY <1>1, <1>2, <1>3, <1>4, <1>5

(* What disconnect() of call k makes of the calls: k's room, if it was     *)
(* connected, is being left.                                               *)
LEMMA DisconnectedTells ==
    ASSUME NEW cs \in [Calls -> CallRecords], NEW k
    PROVE  /\ Disconnected(cs, k) \in [Calls -> CallRecords]
           /\ \A i \in Calls :
                 /\ Disconnected(cs, k)[i].visit = cs[i].visit /\ Disconnected(cs, k)[i].pc = cs[i].pc
                 /\ Disconnected(cs, k)[i].text = cs[i].text /\ Disconnected(cs, k)[i].left = cs[i].left
                 /\ Disconnected(cs, k)[i].asked = cs[i].asked /\ Disconnected(cs, k)[i].saved = cs[i].saved
                 /\ Disconnected(cs, k)[i].link = cs[i].link
                       \/ (cs[i].link = "on" /\ Disconnected(cs, k)[i].link = "leaving")
                 /\ i = k => Disconnected(cs, k)[i].link # "on"
                 /\ i # k => Disconnected(cs, k)[i] = cs[i]
<1>1. \A c \in CallRecords, l \in {"off", "on", "leaving", "gone"} :
         LET t == [c EXCEPT !.hears = FALSE, !.link = l]
         IN  /\ t \in CallRecords /\ t.visit = c.visit /\ t.pc = c.pc /\ t.text = c.text /\ t.left = c.left
             /\ t.asked = c.asked /\ t.saved = c.saved /\ t.link = l
  BY ZenonT(60) DEF CallRecords
<1>2. ASSUME NEW i \in Calls
      PROVE  LET d == Disconnected(cs, k)[i]
             IN  /\ d \in CallRecords /\ d.visit = cs[i].visit /\ d.pc = cs[i].pc
                 /\ d.text = cs[i].text /\ d.left = cs[i].left
                 /\ d.asked = cs[i].asked /\ d.saved = cs[i].saved
                 /\ d.link = cs[i].link \/ (cs[i].link = "on" /\ d.link = "leaving")
                 /\ i = k => d.link # "on"
                 /\ i # k => d = cs[i]
  <2> DEFINE l == IF cs[i].link = "on" THEN "leaving" ELSE cs[i].link
  <2>1. /\ cs[i] \in CallRecords /\ cs[i].link \in {"off", "on", "leaving", "gone"}
        /\ l \in {"off", "on", "leaving", "gone"} /\ l # "on"
        /\ l = cs[i].link \/ (cs[i].link = "on" /\ l = "leaving")
    BY DEF CallRecords
  <2>2. /\ i = k => Disconnected(cs, k)[i] = [cs[i] EXCEPT !.hears = FALSE, !.link = l]
        /\ i # k => Disconnected(cs, k)[i] = cs[i]
    BY DEF Disconnected
  <2> HIDE DEF l
  <2>3. CASE i = k
    <3> DEFINE t == [cs[i] EXCEPT !.hears = FALSE, !.link = l]
    <3>1. /\ t \in CallRecords /\ t.visit = cs[i].visit /\ t.pc = cs[i].pc /\ t.text = cs[i].text
          /\ t.left = cs[i].left /\ t.asked = cs[i].asked /\ t.saved = cs[i].saved /\ t.link = l
      BY <1>1, <2>1, ZenonT(30)
    <3>2. Disconnected(cs, k)[i] = t
      BY <2>2, <2>3
    <3> HIDE DEF t
    <3> QED
      BY <2>1, <2>3, <3>1, <3>2
  <2>4. CASE i # k
    BY <2>1, <2>2, <2>4
  <2> QED
    BY <2>3, <2>4
<1>3. Disconnected(cs, k) = [i \in Calls |-> Disconnected(cs, k)[i]]
  BY DEF Disconnected
<1>4. Disconnected(cs, k) \in [Calls -> CallRecords]
  BY <1>2, <1>3
<1> QED
  BY <1>2, <1>4

(* Starting a call, or saying that there is no connection, keeps the       *)
(* invariant: where a call can be started none is being made.              *)
LEMMA DialStep == CallInv /\ Dial => CallInv'
<1> SUFFICES ASSUME CallInv, Dial
             PROVE  CallInv'
  OBVIOUS
<1> USE DEF CallInv
<1>1. phase = "idle" /\ UNCHANGED <<inRoom, disconnect, transcript, visit, overtaken, strayed>>
  BY DEF Dial
<1>2. \A i \in Calls :
         calls[i].link = "on" /\ calls[i].pc \in {"up", "failed"} /\ ~calls[i].left => calls[i].visit \in overtaken
  BY <1>1 DEF LiveCallIsShown
<1>3. CASE phase' = "error" /\ UNCHANGED <<nCalls, calls>>
  <2>1. CallType' /\ CallLife' /\ RoomIsHeld' /\ LinesAreOwn' /\ SentIsOwn'
    BY <1>1, <1>3 DEF CallType, CallLife, CallLives, RoomIsHeld, LinesAreOwn, SentIsOwn, Here
  <2>2. DialIsShown'
    BY <1>1, <1>3 DEF DialIsShown, Here
  <2>3. LiveCallIsShown'
    BY <1>1, <1>2, <1>3 DEF LiveCallIsShown
  <2> QED
    BY <2>1, <2>2, <2>3
<1>4. CASE ~(phase' = "error" /\ UNCHANGED <<nCalls, calls>>)
  <2> DEFINE k == nCalls + 1
             t == [Unstarted EXCEPT !.visit = visit, !.pc = "token"]
  <2>1. /\ nCalls < MaxCalls /\ nCalls' = k /\ calls' = [calls EXCEPT ![k] = t]
        /\ phase' = "requesting-token"
    BY <1>4 DEF Dial
  <2>2. k \in Calls /\ k > nCalls /\ nCalls \in Nat
    BY <2>1, CallBounds DEF CallType, Calls
  <2>3. /\ t \in CallRecords /\ t.visit = visit /\ t.pc = "token" /\ t.link = "off"
        /\ ~t.asked /\ ~t.saved
    <3>0. /\ Unstarted \in CallRecords /\ Unstarted.link = "off"
          /\ ~Unstarted.asked /\ ~Unstarted.saved
      BY DEF Unstarted, CallRecords
    <3>1. \A v \in Nat : LET c == [Unstarted EXCEPT !.visit = v, !.pc = "token"]
                        IN  /\ c \in CallRecords /\ c.visit = v /\ c.pc = "token" /\ c.link = "off"
                            /\ ~c.asked /\ ~c.saved
      BY <3>0 DEF CallRecords
    <3>2. visit \in Nat
      BY DEF CallType
    <3> QED
      BY <3>1, <3>2
  <2> HIDE DEF k, t
  <2>4. /\ calls' \in [Calls -> CallRecords] /\ calls'[k] = t
        /\ \A i \in Calls : i # k => calls'[i] = calls[i]
    BY <2>1, <2>2, <2>3 DEF CallType
  <2>5. CallType'
    BY <1>1, <2>1, <2>2, <2>4 DEF CallType, k
  <2>6. CallLife'
    <3>0. \A i \in Calls : i \in Int
      BY DEF Calls
    <3>1. \A i \in Calls : (i <= nCalls + 1 <=> (i <= nCalls \/ i = nCalls + 1)) /\ ~(nCalls + 1 <= nCalls)
      BY <2>2, <3>0
    <3>2. \A i \in Calls : CallLives(calls[i])
      BY DEF CallLife
    <3>3. visit <= visit
      BY DEF CallType
    <3> QED
      BY <1>1, <2>1, <2>3, <2>4, <3>1, <3>2, <3>3 DEF CallLife, CallLives, k
  <2>7. RoomIsHeld'
    BY <2>1 DEF RoomIsHeld
  <2>8. DialIsShown'
    BY <1>1, <2>1, <2>3, <2>4 DEF DialIsShown, Here
  <2>9. LinesAreOwn'
    BY <1>1, <2>1 DEF LinesAreOwn
  <2>10. SentIsOwn'
    BY <1>1, <2>3, <2>4 DEF SentIsOwn
  <2>11. LiveCallIsShown'
    BY <1>1, <1>2, <2>3, <2>4 DEF LiveCallIsShown
  <2> QED
    BY <2>5, <2>6, <2>7, <2>8, <2>9, <2>10, <2>11
<1> QED
  BY <1>3, <1>4

(* A call that is up is shown, if the page is still its own, and can be    *)
(* disconnected; a newer call was overtaken by it.                         *)
LEMMA InCallStep ==
    ASSUME CallInv, NEW i \in Calls, InCall(i)
    PROVE  CallInv'
<1> USE DEF CallInv
<1> DEFINE t == [calls[i] EXCEPT !.pc = "up", !.hears = TRUE]
<1>1. /\ calls[i].pc = "microphone" /\ calls' = [calls EXCEPT ![i].pc = "up", ![i].hears = TRUE]
      /\ UNCHANGED <<transcript, visit, nCalls, strayed>>
  BY DEF InCall
<1>2. /\ Here(i) => phase' = "in-call" /\ inRoom' = i /\ disconnect' = i
      /\ ~Here(i) => UNCHANGED <<phase, inRoom, disconnect>>
      /\ overtaken \subseteq overtaken'
      /\ Here(i) /\ i < nCalls => visit \in overtaken'
  BY DEF InCall, Show
<1>3. calls[i] \in CallRecords /\ CallLives(calls[i]) /\ i <= nCalls /\ i \in Int /\ nCalls \in Int
  BY <1>1 DEF CallType, CallLife, Calls
<1>4. calls' = [calls EXCEPT ![i] = t]
  BY <1>1, <1>3
<1>5. /\ t \in CallRecords /\ t.pc = "up" /\ t.visit = calls[i].visit /\ t.link = calls[i].link
      /\ t.left = calls[i].left /\ ~t.asked /\ t.saved = calls[i].saved /\ t.text = calls[i].text
  BY <1>1, <1>3 DEF CallRecords, CallLives
<1> HIDE DEF t
<1>6. /\ calls' \in [Calls -> CallRecords] /\ calls'[i] = t
      /\ \A j \in Calls : j # i => calls'[j] = calls[j]
  BY <1>4, <1>5 DEF CallType
<1>7. CallType'
  BY <1>1, <1>6 DEF CallType
<1>8. CallLife'
  BY <1>1, <1>3, <1>5, <1>6 DEF CallLife, CallLives
<1>9. RoomIsHeld'
  BY <1>1, <1>2, <1>3, <1>5, <1>6 DEF RoomIsHeld, Here
<1>10. DialIsShown'
  BY <1>1, <1>2, <1>3, <1>5, <1>6 DEF DialIsShown, Here
<1>11. LinesAreOwn'
  BY <1>1, <1>2 DEF LinesAreOwn
<1>12. SentIsOwn'
  BY <1>1, <1>2, <1>5, <1>6 DEF SentIsOwn
<1>13. LiveCallIsShown'
  <2> SUFFICES ASSUME NEW j \in Calls,
                      calls'[j].link = "on", calls'[j].pc \in {"up", "failed"}, ~calls'[j].left,
                      calls'[j].visit \notin overtaken'
               PROVE  Here(j)' /\ phase' = "in-call" /\ inRoom' = j /\ disconnect' = j
    BY DEF LiveCallIsShown
  <2>1. CASE j = i
    BY <1>1, <1>2, <1>3, <1>5, <1>6, <2>1 DEF Here, CallLives
  <2>2. CASE j # i
    <3>1. Here(j) /\ phase = "in-call" /\ inRoom = j /\ disconnect = j /\ visit \notin overtaken'
      BY <1>2, <1>6, <2>2 DEF LiveCallIsShown, Here
    <3>2. j = nCalls
      BY <1>2, <3>1 DEF RoomIsHeld
    <3> QED
      BY <1>1, <1>2, <1>3, <1>6, <2>2, <3>1, <3>2 DEF Here
  <2> QED
    BY <2>1, <2>2
<1> QED
  BY <1>7, <1>8, <1>9, <1>10, <1>11, <1>12, <1>13

(* A line of the newest call, while its room is connected, is the page's   *)
(* own; any other has strayed.                                             *)
LEMMA LineStep ==
    ASSUME CallInv, NEW i \in Calls, Line(i)
    PROVE  CallInv'
<1> USE DEF CallInv
<1>1. /\ Here(i) /\ transcript' = transcript \cup {i}
      /\ UNCHANGED <<phase, inRoom, disconnect, visit, nCalls, calls, overtaken>>
      /\ strayed \subseteq strayed'
      /\ calls[i].link # "on" \/ calls[i].left \/ i < nCalls => visit \in strayed'
  BY DEF Line
<1>2. CallType' /\ CallLife' /\ RoomIsHeld' /\ DialIsShown' /\ SentIsOwn' /\ LiveCallIsShown'
  BY <1>1 DEF CallType, CallLife, CallLives, RoomIsHeld, DialIsShown, SentIsOwn, LiveCallIsShown, Here
<1>3. LinesAreOwn'
  <2> SUFFICES ASSUME visit \notin strayed', visit \notin overtaken
               PROVE  transcript' \subseteq {nCalls} /\ phase # "idle"
    BY <1>1 DEF LinesAreOwn
  <2>1. calls[i].link = "on" /\ ~calls[i].left /\ ~(i < nCalls)
    BY <1>1
  <2>2. calls[i].pc # "none"
    BY <2>1 DEF CallLife
  <2>3. i = nCalls
    BY <2>1, <2>2 DEF CallLife, CallType, Calls
  <2>4. CASE calls[i].pc = "up"
    BY <1>1, <2>1, <2>3, <2>4 DEF LiveCallIsShown, Here, LinesAreOwn
  <2>5. CASE calls[i].pc = "microphone"
    BY <1>1, <2>1, <2>3, <2>5 DEF DialIsShown, LinesAreOwn
  <2>6. calls[i].pc \in {"up", "microphone"}
    BY <2>1 DEF CallLife, CallLives
  <2> QED
    BY <2>4, <2>5, <2>6
<1> QED
  BY <1>2, <1>3

(* Hanging up leaves the room that is shown, and sends the lines on the    *)
(* page as those of its call.                                              *)
LEMMA HangUpStep == CallInv /\ HangUp => CallInv'
<1> SUFFICES ASSUME CallInv, HangUp
             PROVE  CallInv'
  OBVIOUS
<1> USE DEF CallInv
<1> DEFINE k == inRoom
           cs == Disconnected(calls, disconnect)
           t == [cs[k] EXCEPT !.asked = TRUE, !.text = transcript]
<1>1. /\ phase = "in-call" /\ phase' = "ending"
      /\ calls' = [cs EXCEPT ![k].asked = TRUE, ![k].text = transcript]
      /\ UNCHANGED <<inRoom, transcript, visit, nCalls, overtaken, strayed>>
  BY DEF HangUp
<1>2. /\ k \in Calls /\ disconnect = k /\ Here(k) /\ calls[k].pc = "up"
      /\ visit \notin overtaken => k = nCalls
  BY <1>1 DEF RoomIsHeld
<1>3. /\ cs \in [Calls -> CallRecords]
      /\ \A i \in Calls : /\ cs[i].visit = calls[i].visit /\ cs[i].pc = calls[i].pc
                          /\ i = k => cs[i].link # "on"
                          /\ i # k => cs[i] = calls[i]
  BY <1>2, DisconnectedTells DEF CallType
<1> HIDE DEF cs
<1>4. calls' = [cs EXCEPT ![k] = t]
  BY <1>1, <1>2, <1>3
<1>5. /\ t \in CallRecords /\ t.visit = visit /\ t.pc = "up" /\ t.link # "on" /\ t.text = transcript
  <2>1. \A x \in SUBSET Calls :
           LET c == [cs[k] EXCEPT !.asked = TRUE, !.text = x]
           IN  /\ c \in CallRecords /\ c.visit = cs[k].visit /\ c.pc = cs[k].pc
               /\ c.link = cs[k].link /\ c.text = x
    <3> SUFFICES \A r \in CallRecords, x \in SUBSET Calls :
                    LET c == [r EXCEPT !.asked = TRUE, !.text = x]
                    IN  /\ c \in CallRecords /\ c.visit = r.visit /\ c.pc = r.pc
                        /\ c.link = r.link /\ c.text = x
      BY <1>2, <1>3
    <3> QED
      BY ZenonT(60) DEF CallRecords
  <2>2. transcript \in SUBSET Calls
    BY DEF CallType
  <2> QED
    BY <1>2, <1>3, <2>1, <2>2 DEF Here
<1> HIDE DEF t
<1>6. /\ calls' \in [Calls -> CallRecords] /\ calls'[k] = t
      /\ \A i \in Calls : i # k => calls'[i] = calls[i]
  BY <1>2, <1>3, <1>4, <1>5
<1>7. CallType' /\ RoomIsHeld'
  BY <1>1, <1>6 DEF CallType, RoomIsHeld
<1>8. CallLife'
  <2> SUFFICES ASSUME NEW i \in Calls
               PROVE  /\ calls'[i].pc # "none" <=> i <= nCalls
                      /\ calls'[i].pc = "none" => calls'[i].link = "off" /\ ~calls'[i].asked
                      /\ calls'[i].visit <= visit
                      /\ CallLives(calls[i])'
    BY <1>1 DEF CallLife
  <2>1. CASE i = k
    <3>1. k <= nCalls /\ visit <= visit
      BY <1>2 DEF CallLife, CallType
    <3> HIDE DEF k
    <3> QED
      BY <1>1, <1>5, <1>6, <2>1, <3>1 DEF CallLives
  <2>2. CASE i # k
    BY <1>1, <1>6, <2>2 DEF CallLife, CallLives
  <2> QED
    BY <2>1, <2>2
<1>9. DialIsShown'
  BY <1>1, <1>2, <1>5, <1>6 DEF DialIsShown, Here
<1>10. LinesAreOwn'
  BY <1>1 DEF LinesAreOwn
<1>11. SentIsOwn'
  <2>1. visit \notin strayed \cup overtaken => t.text \subseteq {k}
    BY <1>2, <1>5 DEF LinesAreOwn
  <2> HIDE DEF k
  <2> QED
    BY <1>1, <1>5, <1>6, <2>1 DEF SentIsOwn
<1>12. LiveCallIsShown'
  BY <1>1, <1>5, <1>6 DEF LiveCallIsShown
<1> QED
  BY <1>7, <1>8, <1>9, <1>10, <1>11, <1>12

(* Leaving the page leaves the room it could hang up; a call that is not   *)
(* up yet stays behind.                                                    *)
LEMMA LeaveStep == CallInv /\ LeavePage => CallInv'
<1> SUFFICES ASSUME CallInv, LeavePage
             PROVE  CallInv'
  OBVIOUS
<1> USE DEF CallInv
<1> DEFINE cs == Disconnected(calls, disconnect)
<1>1. /\ visit' = visit + 1 /\ phase' = "idle" /\ transcript' = {}
      /\ calls' = [i \in Calls |->
                     [cs[i] EXCEPT !.left = @ \/ calls[i].pc \in {"token", "connect", "microphone"}]]
      /\ UNCHANGED <<nCalls, overtaken, strayed>>
  BY DEF LeavePage
<1>2. /\ cs \in [Calls -> CallRecords]
      /\ \A i \in Calls :
            /\ cs[i].visit = calls[i].visit /\ cs[i].pc = calls[i].pc
            /\ cs[i].text = calls[i].text /\ cs[i].left = calls[i].left
            /\ cs[i].asked = calls[i].asked /\ cs[i].saved = calls[i].saved
            /\ cs[i].link = calls[i].link \/ (calls[i].link = "on" /\ cs[i].link = "leaving")
            /\ i = disconnect => cs[i].link # "on"
            /\ i # disconnect => cs[i] = calls[i]
  BY DisconnectedTells DEF CallType
<1> HIDE DEF cs
<1>3. \A c \in CallRecords, b \in BOOLEAN :
         LET t == [c EXCEPT !.left = b]
         IN  /\ t \in CallRecords /\ t.visit = c.visit /\ t.pc = c.pc /\ t.text = c.text /\ t.link = c.link
             /\ t.asked = c.asked /\ t.saved = c.saved /\ t.left = b
  BY DEF CallRecords
<1>4. ASSUME NEW i \in Calls
      PROVE  /\ calls'[i] \in CallRecords
             /\ calls'[i].visit = cs[i].visit /\ calls'[i].pc = cs[i].pc
             /\ calls'[i].text = cs[i].text /\ calls'[i].link = cs[i].link
             /\ calls'[i].asked = cs[i].asked /\ calls'[i].saved = cs[i].saved
             /\ cs[i].left => calls'[i].left
             /\ cs[i].pc \in {"token", "connect", "microphone"} => calls'[i].left
  <2> DEFINE b == cs[i].left \/ calls[i].pc \in {"token", "connect", "microphone"}
             t == [cs[i] EXCEPT !.left = b]
  <2>1. calls'[i] = t /\ cs[i] \in CallRecords /\ b \in BOOLEAN
    BY <1>1, <1>2
  <2>2. /\ cs[i].left => b
        /\ cs[i].pc \in {"token", "connect", "microphone"} => b
    BY <1>2
  <2> HIDE DEF b
  <2>3. /\ t \in CallRecords /\ t.visit = cs[i].visit /\ t.pc = cs[i].pc /\ t.text = cs[i].text
        /\ t.link = cs[i].link /\ t.asked = cs[i].asked /\ t.saved = cs[i].saved /\ t.left = b
    BY <1>3, <2>1
  <2> HIDE DEF t
  <2> QED
    BY <2>1, <2>2, <2>3
<1>5. calls' \in [Calls -> CallRecords]
  <2>1. calls' = [i \in Calls |-> calls'[i]]
    BY <1>1
  <2> QED
    BY <1>4, <2>1
<1>6. CallType'
  BY <1>1, <1>5 DEF CallType
<1>7. CallLife'
  <2> SUFFICES ASSUME NEW i \in Calls
               PROVE  /\ calls'[i].pc # "none" <=> i <= nCalls
                      /\ calls'[i].pc = "none" => calls'[i].link = "off" /\ ~calls'[i].asked
                      /\ calls'[i].visit <= visit + 1
                      /\ CallLives(calls[i])'
    BY <1>1 DEF CallLife
  <2>1. calls'[i].pc # "none" <=> i <= nCalls
    BY <1>2, <1>4 DEF CallLife
  <2>2. calls'[i].pc = "none" => calls'[i].link = "off" /\ ~calls'[i].asked
    BY <1>2, <1>4 DEF CallLife
  <2>3. calls'[i].visit <= visit + 1
    BY <1>2, <1>4 DEF CallLife, CallType, CallRecords
  <2>4. CallLives(calls[i])'
    BY <1>2, <1>4 DEF CallLife, CallLives
  <2> QED
    BY <2>1, <2>2, <2>3, <2>4
<1>8. RoomIsHeld' /\ LinesAreOwn'
  BY <1>1 DEF RoomIsHeld, LinesAreOwn
<1>9. DialIsShown'
  <2>1. \A i \in Calls : calls'[i].visit # visit + 1
    BY <1>2, <1>4 DEF CallLife, CallType, CallRecords
  <2> QED
    BY <1>1, <2>1 DEF DialIsShown, Here
<1>10. SentIsOwn'
  <2> SUFFICES ASSUME NEW i \in Calls, calls'[i].asked \/ calls'[i].saved,
                      calls'[i].visit \notin strayed \cup overtaken
               PROVE  calls'[i].text \subseteq {i}
    BY <1>1 DEF SentIsOwn
  <2>1. calls[i].asked \/ calls[i].saved
    BY <1>2, <1>4
  <2> QED
    BY <1>2, <1>4, <2>1 DEF SentIsOwn
<1>11. LiveCallIsShown'
  BY <1>1, <1>2, <1>4 DEF LiveCallIsShown
<1> QED
  BY <1>6, <1>7, <1>8, <1>9, <1>10, <1>11

(* Every step of the page of calls, and of the calls it left behind, keeps *)
(* the invariant.                                                          *)
LEMMA CallStep == CallInv /\ [CallNext]_callVars => CallInv'
<1> SUFFICES ASSUME CallInv, [CallNext]_callVars
             PROVE  CallInv'
  OBVIOUS
<1>1. CASE Reset
  <2>1. /\ phase \in {"saved", "error"} /\ phase' = "idle" /\ transcript' = {}
        /\ UNCHANGED <<inRoom, disconnect, visit, nCalls, calls, overtaken, strayed>>
    BY <1>1 DEF Reset
  <2>2. CallType' /\ CallLife' /\ RoomIsHeld' /\ LinesAreOwn' /\ SentIsOwn'
    BY <2>1 DEF CallInv, CallType, CallLife, CallLives, RoomIsHeld, LinesAreOwn, SentIsOwn
  <2>3. DialIsShown' /\ LiveCallIsShown'
    BY <2>1 DEF CallInv, DialIsShown, LiveCallIsShown, Here
  <2> QED
    BY <2>2, <2>3 DEF CallInv
<1>2. CASE UNCHANGED callVars
  BY <1>2 DEF callVars, CallInv, CallType, CallLife, CallLives, RoomIsHeld, DialIsShown, LinesAreOwn,
              SentIsOwn, LiveCallIsShown, Here
<1> QED
  BY <1>1, <1>2, DialStep, HangUpStep, LeaveStep, ShownStep, InCallStep, LineStep DEF CallNext

-----------------------------------------------------------------------------
(* The web app *)

WebInv == OnboardingInv /\ PoolInv /\ ChatInv /\ CallInv

(* Each component keeps its invariant, whichever of them the behaviour is  *)
(* one of.                                                                 *)
THEOREM WebInvariant == FairSpec => []WebInv
<1>1. Init => WebInv
  BY OnboardingStarts, PoolStarts, ChatStarts, CallsStart DEF Init, WebInv
<1>2. WebInv /\ [Next]_vars => WebInv'
  <2> SUFFICES ASSUME WebInv, [Next]_vars
               PROVE  WebInv'
    OBVIOUS
  <2>1. [ONext]_onboardingVars
    BY DEF Next, vars, Wizard, Accounts, Chatting, Calling
  <2>2. [PNext]_poolVars
    BY DEF Next, vars, Wizard, Accounts, Chatting, Calling
  <2>3. [ChNext]_chatVars
    BY DEF Next, vars, Wizard, Accounts, Chatting, Calling
  <2>4. [CallNext]_callVars
    BY DEF Next, vars, Wizard, Accounts, Chatting, Calling
  <2> QED
    BY <2>1, <2>2, <2>3, <2>4, OnboardingStep, PoolStep, ChatStep, CallStep DEF WebInv
<1> QED
  BY <1>1, <1>2, PTL DEF FairSpec

(* Beyond the server step the url of the wizard is one that a probe has    *)
(* reached (OnboardingWizard.tsx, serverValid), for any number of acts and *)
(* commits; the two ways around it are the histories crossed and rushed.   *)
THEOREM UrlWasReached == FairSpec => []ServerWasReached
<1>1. WebInv => ServerWasReached
  BY DEF WebInv, OnboardingInv
<1> QED
  BY <1>1, WebInvariant, PTL

(* A commit undoes what the user did last only if it was in flight when    *)
(* they did it (handleComplete writes settings it read before updateMe).   *)
THEOREM LastWordIsKept == FairSpec => []UserHasLastWord
<1>1. WebInv => UserHasLastWord
  BY DEF WebInv, OnboardingInv
<1> QED
  BY <1>1, WebInvariant, PTL

(* "Account connected successfully" is never said without an account that  *)
(* was added since the try read its base (PoolManager.tsx, startPolling).  *)
THEOREM AddedIsAnnouncedTruly == FairSpec => []AddedIsTrue
<1>1. WebInv => AddedIsTrue
  BY DEF WebInv, PoolInv
<1> QED
  BY <1>1, WebInvariant, PTL

(* No interval goes on without its dialog, but for the two ways that the   *)
(* property names (PoolManager.tsx, stopPolling and the dialog's cleanup). *)
THEOREM PollingIsShown == FairSpec => []NoStrayPolling
<1>1. WebInv => NoStrayPolling
  BY DEF WebInv, PoolInv
<1> QED
  BY <1>1, WebInvariant, PTL

(* The text on the screen is the answer to the newest message, while one   *)
(* is in flight at a time (InputBar.tsx, handleSend).                      *)
THEOREM AnswerIsOwn == FairSpec => []ShownIsOwn
<1>1. WebInv => ShownIsOwn
  BY DEF WebInv, ChatInv, ShownIsOwn
<1> QED
  BY <1>1, WebInvariant, PTL

(* Stop aborts the newest stream from the bar it was sent from             *)
(* (InputBar.tsx, handleAbort).                                            *)
THEOREM StopAborts == FairSpec => []StopReaches
<1>1. WebInv => StopReaches
  BY DEF WebInv, ChatInv, NewestIsAbortable, StopReaches
<1> QED
  BY <1>1, WebInvariant, PTL

(* A call that is up is the one the page shows and can hang up, but for    *)
(* the calls that were left and the visits that an earlier call changed    *)
(* (call/page.tsx, handleStart and handleEnd).                             *)
THEOREM UpIsShown == FairSpec => []LiveCallIsShown
<1>1. WebInv => LiveCallIsShown
  BY DEF WebInv, CallInv
<1> QED
  BY <1>1, WebInvariant, PTL

(* The memory of a call consists of lines of that call (call/page.tsx,     *)
(* handleEnd and handleReset).                                             *)
THEOREM MemoryIsOwn == FairSpec => []SavedIsOwn
<1>1. WebInv => SavedIsOwn
  BY DEF WebInv, CallInv, SentIsOwn, SavedIsOwn
<1> QED
  BY <1>1, WebInvariant, PTL
=============================================================================
