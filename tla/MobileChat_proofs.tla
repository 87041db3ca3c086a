------------------------- MODULE MobileChat_proofs --------------------------
(***************************************************************************)
(* Proofs about sending and speaking on the mobile app.  Neither screen's  *)
(* steps touch the other's state, so each invariant is shown for the steps *)
(* of its own screen and holds through the other's.                        *)
(***************************************************************************)
EXTENDS MobileChat, FiniteSetTheorems, TLAPS

-----------------------------------------------------------------------------
(* The chat screen *)

Sends == [pc : {"idle", "recall", "infer", "persist", "sleep"}, message : Messages \cup {NoMessage},
          attempt : Nat, closure : Nat, active : Nat]

Bubbles == {"none", "sending", "sent", "failed"}

SendType ==
    /\ error \in BOOLEAN /\ crossed \in BOOLEAN
    /\ status \in {"idle", "recalling", "sending", "sent", "failed"}
    /\ sends \in [Calls -> Sends]
    /\ \A c \in Calls : Running(c) => sends[c].message \in Messages
    /\ last \in Messages \cup {NoMessage}
    /\ bubble \in [Messages -> Bubbles]
    /\ conv \in Nat /\ convs \in Nat
    /\ IsFiniteSet(stored) /\ IsFiniteSet(queue)
    /\ kept \in [Messages -> Nat]

(* Whatever else happens, a message marked sent has a row.                 *)
SentHasRow == \A m \in Messages : bubble[m] = "sent" => \E row \in stored : row.message = m

(* One call runs at a time, and it sends what Retry would.                 *)
OneCall ==
    /\ \A c, d \in Calls : Running(c) /\ Running(d) => c = d
    /\ \A c \in Calls : Running(c) => sends[c].message = last

(* Only a call that has thrown runs unseen, and it sleeps.                 *)
StatusTells ==
    \A c \in Calls : Running(c) => isSending \/ (status = "sent" /\ sends[c].pc = "sleep")

(* A send clears the banner of the one before.                             *)
BannerOnlyAtRest == error => \A c \in Calls : ~Running(c)

(* A call that opens a conversation is the first of the screen; any other  *)
(* runs in the conversation the screen shows.                              *)
InConversation ==
    /\ conv = None => \A m \in Messages : bubble[m] # "sent"
    /\ \A c \in Calls : Running(c) =>
         /\ sends[c].closure = None => \A m \in Messages : bubble[m] = "sent" => m = sends[c].message
         /\ sends[c].closure # None => sends[c].closure = conv
         /\ sends[c].pc \in {"infer", "persist"} => sends[c].active = conv /\ conv # None

OnItsWay(m) == \E c \in Calls : Running(c) /\ sends[c].message = m

SentHere ==
    \A m \in Messages : bubble[m] = "sent" =>
        OnItsWay(m) \/ \E row \in stored : row.message = m /\ row.conv = conv

(* A message that is still to be sent, or may be sent again.               *)
Pending(m) == OnItsWay(m) \/ (error /\ last = m) \/ bubble[m] = "none"

RowCount(m) == Cardinality(RowsOf(stored \cup queue, m))

(* Of the rows of a message all are owed to attempts taken for failed, but *)
(* for the one it was sent with.                                           *)
RowsAreOwed == \A m \in Messages : RowCount(m) <= kept[m] + IF Pending(m) THEN 0 ELSE 1

Calm ==
    OneCall /\ StatusTells /\ BannerOnlyAtRest /\ InConversation /\ SentHere /\ RowsAreOwed

SendInv == SendType /\ SentHasRow /\ (~crossed => Calm)

(* A set of rows that gets one more has at most one more of a message, and *)
(* none more of another.                                                   *)
LEMMA OneMoreRow ==
    ASSUME NEW S, IsFiniteSet(S), NEW row, NEW m
    PROVE  /\ Cardinality(RowsOf(S, m)) \in Nat
           /\ Cardinality(RowsOf(S \cup {row}, m)) \in Nat
           /\ Cardinality(RowsOf(S \cup {row}, m)) <= Cardinality(RowsOf(S, m)) + 1
           /\ row.message # m => Cardinality(RowsOf(S \cup {row}, m)) = Cardinality(RowsOf(S, m))
<1>1. IsFiniteSet(RowsOf(S, m)) /\ Cardinality(RowsOf(S, m)) \in Nat
  <2>1. RowsOf(S, m) \subseteq S
    BY DEF RowsOf
  <2>2. IsFiniteSet(RowsOf(S, m))
    BY <2>1, FS_Subset
  <2> QED
    BY <2>2, FS_CardinalityType
<1>2. CASE row.message = m
  <2>1. RowsOf(S \cup {row}, m) = RowsOf(S, m) \cup {row}
    BY <1>2 DEF RowsOf
  <2>2. /\ Cardinality(RowsOf(S, m) \cup {row}) \in Nat
        /\ Cardinality(RowsOf(S, m) \cup {row}) <= Cardinality(RowsOf(S, m)) + 1
    <3>1. /\ IsFiniteSet(RowsOf(S, m) \cup {row})
          /\ \/ Cardinality(RowsOf(S, m) \cup {row}) = Cardinality(RowsOf(S, m))
             \/ Cardinality(RowsOf(S, m) \cup {row}) = Cardinality(RowsOf(S, m)) + 1
      BY <1>1, FS_AddElement
    <3> QED
      BY <1>1, <3>1
  <2> QED
    BY <1>1, <1>2, <2>1, <2>2
<1>3. CASE row.message # m
  <2>1. RowsOf(S \cup {row}, m) = RowsOf(S, m)
    BY <1>3 DEF RowsOf
  <2> QED
    BY <1>1, <1>3, <2>1
<1> QED
  BY <1>2, <1>3

(* The rows of a message are finitely many.                                *)
LEMMA RowCountType == ASSUME SendType, NEW m PROVE RowCount(m) \in Nat
<1>1. IsFiniteSet(stored \cup queue)
  BY FS_Union DEF SendType
<1> QED
  BY <1>1, OneMoreRow DEF RowCount

(* The row of an attempt, stored or queued, adds one to its message.       *)
LEMMA RowAdds ==
    ASSUME SendType, NEW c \in Calls, NEW m,
           stored' \cup queue' = (stored \cup queue) \cup {Row(c)}
    PROVE  /\ RowCount(m)' \in Nat /\ RowCount(m)' <= RowCount(m) + 1
           /\ sends[c].message # m => RowCount(m)' = RowCount(m)
<1>1. IsFiniteSet(stored \cup queue)
  BY FS_Union DEF SendType
<1>2. Row(c).message = sends[c].message
  BY DEF Row
<1>3. RowCount(m)' = Cardinality(RowsOf((stored \cup queue) \cup {Row(c)}, m))
  BY DEF RowCount, RowsOf
<1> QED
  BY <1>1, <1>2, <1>3, OneMoreRow DEF RowCount

(* The screen opens with no message and no row.                            *)
LEMMA SendStarts == SendInit => SendInv
<1> SUFFICES ASSUME SendInit
             PROVE  SendInv
  OBVIOUS
<1> USE DEF SendInit
<1>1. SendType
  <2>1. IsFiniteSet({})
    BY FS_EmptySet
  <2> QED
    BY <2>1 DEF SendType, Sends, Bubbles, NoSend, None, Running
<1>2. SentHasRow
  BY DEF SentHasRow
<1>3. OneCall /\ StatusTells /\ BannerOnlyAtRest /\ InConversation /\ SentHere
  BY DEF OneCall, StatusTells, BannerOnlyAtRest, InConversation, SentHere, OnItsWay, Running, NoSend
<1>4. RowsAreOwed
  <2>1. \A m \in Messages : RowsOf(stored \cup queue, m) = {}
    BY DEF RowsOf
  <2>2. Cardinality({}) = 0
    BY FS_EmptySet
  <2> QED
    BY <2>1, <2>2 DEF RowsAreOwed, RowCount
<1> QED
  BY <1>1, <1>2, <1>3, <1>4 DEF SendInv, Calm

(* What the rows are owed to stays so while no row comes and no message    *)
(* becomes pending.                                                        *)
LEMMA OwedStays ==
    ASSUME SendType, RowsAreOwed, stored' \cup queue' = stored \cup queue, UNCHANGED kept,
           \A m \in Messages : Pending(m)' => Pending(m)
    PROVE  RowsAreOwed'
<1>1. \A m \in Messages : RowCount(m)' = RowCount(m)
  BY DEF RowCount, RowsOf
<1>2. \A m \in Messages : RowCount(m) \in Nat /\ kept[m] \in Nat
  BY RowCountType DEF SendType
<1> QED
  BY <1>1, <1>2 DEF RowsAreOwed

(* A new attempt, whoever starts it: for what Retry would send, with no    *)
(* other call running, in the conversation of the screen, or before any    *)
(* other message was sent.                                                 *)
LEMMA AttemptKeeps ==
    ASSUME SendInv, NEW c \in Calls, NEW m \in Messages, NEW n \in Nat, NEW cl \in Nat,
           Attempt(c, m, n, cl), UNCHANGED <<bubble, conv, convs, stored, queue, kept>>,
           last' \in Messages \cup {NoMessage}, crossed' \in BOOLEAN, crossed => crossed',
           ~crossed' =>
             /\ last' = m /\ Pending(m)
             /\ \A d \in Calls : Running(d) => d = c /\ sends[c].message = m
             /\ cl # None => cl = conv
             /\ cl = None => \A k \in Messages : bubble[k] = "sent" => k = m
    PROVE  SendInv'
<1> DEFINE new == [pc |-> "recall", message |-> m, attempt |-> n, closure |-> cl, active |-> None]
<1>1. SendType /\ SentHasRow /\ (~crossed => Calm)
  BY DEF SendInv
<1>2. /\ sends' = [sends EXCEPT ![c] = new] /\ error' = FALSE /\ status' = "recalling"
      /\ new \in Sends
      /\ new.pc = "recall" /\ new.message = m /\ new.closure = cl
  BY DEF Attempt, Sends, None
<1> HIDE DEF new
<1>3. /\ sends' \in [Calls -> Sends] /\ sends'[c] = new
      /\ \A d \in Calls : d # c => sends'[d] = sends[d]
  BY <1>1, <1>2 DEF SendType
<1>4. \A d \in Calls : Running(d)' <=> (d = c \/ Running(d))
  BY <1>2, <1>3 DEF Running
<1>5. SendType'
  BY <1>1, <1>2, <1>3, <1>4 DEF SendType
<1>6. SentHasRow'
  BY <1>1 DEF SentHasRow
<1>7. ASSUME ~crossed'
      PROVE  Calm'
  <2>1. Calm /\ \A d \in Calls : Running(d)' => d = c
    BY <1>1, <1>4, <1>7
  <2>2. OneCall' /\ StatusTells' /\ BannerOnlyAtRest'
    BY <1>2, <1>3, <1>7, <2>1 DEF OneCall, StatusTells, BannerOnlyAtRest, isSending
  <2>3. InConversation'
    BY <1>2, <1>3, <1>7, <2>1 DEF InConversation, Calm
  <2>4. \A k \in Messages : OnItsWay(k) => k = m
    BY <1>7 DEF OnItsWay
  <2>5. \A k \in Messages : OnItsWay(k)' <=> k = m
    BY <1>2, <1>3, <1>4, <2>1 DEF OnItsWay
  <2>6. SentHere'
    BY <2>1, <2>4, <2>5 DEF SentHere, Calm
  <2>7. \A k \in Messages : Pending(k)' => Pending(k)
    BY <1>2, <1>7, <2>5 DEF Pending
  <2>8. RowsAreOwed'
    BY <1>1, <2>1, <2>7, OwedStays DEF Calm
  <2> QED
    BY <2>2, <2>3, <2>6, <2>8 DEF Calm
<1> QED
  BY <1>5, <1>6, <1>7 DEF SendInv

(* The catch block, with the bubble as it was or, the row stored, marked   *)
(* sent, so long as every new row is counted as kept.                      *)
LEMMA CatchKeeps ==
    ASSUME SendInv, NEW c \in Calls, sends[c].pc \in {"infer", "persist"},
           NEW network \in BOOLEAN, NEW b, NEW s, Catch(c, network, b, s),
           UNCHANGED <<last, conv, convs, crossed>>,
           \/ b = bubble /\ s = status
           \/ b = [bubble EXCEPT ![sends[c].message] = "sent"] /\ s = "sent" /\ Row(c) \in stored',
           stored \subseteq stored', IsFiniteSet(stored'), IsFiniteSet(queue'),
           kept' \in [Messages -> Nat],
           \A m \in Messages : RowCount(m)' - kept'[m] <= RowCount(m) - kept[m],
           \A m \in Messages : RowCount(m)' \in Nat
    PROVE  SendInv'
<1> DEFINE msg == sends[c].message
<1>1. SendType /\ SentHasRow /\ (~crossed => Calm)
  BY DEF SendInv
<1>2. /\ Running(c) /\ msg \in Messages /\ sends[c] \in Sends
      /\ b \in [Messages -> Bubbles]
      /\ s \in {"idle", "recalling", "sending", "sent", "failed"}
      /\ \A m \in Messages : m # msg => b[m] = bubble[m]
      /\ b[msg] = bubble[msg] \/ (b[msg] = "sent" /\ Row(c) \in stored' /\ s = "sent")
  BY <1>1 DEF SendType, Running, Bubbles
<1>3. Row(c).message = msg
  BY DEF Row
<1>4. /\ sends' \in [Calls -> Sends]
      /\ \A d \in Calls : d # c => sends'[d] = sends[d]
      /\ bubble' \in [Messages -> Bubbles]
      /\ \A m \in Messages : m # msg => bubble'[m] = bubble[m]
      /\ error' \in BOOLEAN /\ status' \in {"idle", "recalling", "sending", "sent", "failed"}
      /\ \/ /\ sends'[c].pc = "sleep" /\ sends'[c].message = msg /\ sends'[c].closure = sends[c].closure
            /\ error' = error /\ bubble' = b /\ status' = s
         \/ sends'[c].pc = "idle" /\ error' = TRUE /\ bubble'[msg] = "failed"
  <2>1. CASE /\ sends' = [sends EXCEPT ![c].pc = "sleep"] /\ bubble' = b /\ status' = s /\ error' = error
    BY <1>1, <1>2, <2>1 DEF SendType, Sends
  <2>2. CASE /\ sends' = [sends EXCEPT ![c] = NoSend] /\ error' = TRUE /\ status' = "failed"
             /\ bubble' = [b EXCEPT ![msg] = "failed"]
    <3>1. NoSend \in Sends /\ NoSend.pc = "idle"
      BY DEF NoSend, Sends, None
    <3> HIDE DEF msg
    <3> QED
      BY <1>1, <1>2, <2>2, <3>1 DEF SendType, Bubbles
  <2> QED
    BY <2>1, <2>2 DEF Catch
<1> HIDE DEF msg
<1>5. \A d \in Calls : Running(d)' => Running(d)
  BY <1>2, <1>4 DEF Running
<1>6. SendType'
  <2>1. \A d \in Calls : Running(d)' => sends'[d].message \in Messages
    BY <1>1, <1>2, <1>4, <1>5 DEF SendType, Running
  <2> QED
    BY <1>1, <1>4, <2>1 DEF SendType, Running
<1>7. SentHasRow'
  <2> SUFFICES ASSUME NEW m \in Messages, bubble'[m] = "sent"
               PROVE  \E row \in stored' : row.message = m
    BY DEF SentHasRow
  <2>1. CASE bubble[m] = "sent"
    BY <1>1, <2>1 DEF SentHasRow
  <2>2. CASE bubble[m] # "sent"
    BY <1>2, <1>3, <1>4, <2>2
  <2> QED
    BY <2>1, <2>2
<1>8. ASSUME ~crossed'
      PROVE  Calm'
  <2>1. Calm
    BY <1>1, <1>8
  <2>2. /\ \A d \in Calls : Running(d) <=> d = c
        /\ \A d \in Calls : Running(d)' => d = c
        /\ last = msg /\ ~error
    BY <1>2, <1>5, <2>1 DEF Calm, OneCall, BannerOnlyAtRest, msg
  <2>3. OneCall' /\ BannerOnlyAtRest'
    BY <1>4, <2>2 DEF OneCall, BannerOnlyAtRest, Running
  <2>4. StatusTells'
    <3>1. isSending
      BY <1>2, <2>1 DEF Calm, StatusTells
    <3> QED
      BY <1>2, <1>4, <2>2, <3>1 DEF StatusTells, isSending, Running
  <2>5. InConversation'
    <3>1. /\ conv # None
          /\ sends[c].closure = None => \A m \in Messages : bubble[m] = "sent" => m = msg
          /\ sends[c].closure # None => sends[c].closure = conv
      BY <1>2, <2>1 DEF Calm, InConversation, msg
    <3> QED
      BY <1>4, <2>2, <3>1 DEF InConversation, Running
  <2>6. \A m \in Messages : OnItsWay(m) <=> m = msg
    BY <1>2, <2>2 DEF OnItsWay, msg
  <2>7. \A m \in Messages : OnItsWay(m)' <=> (m = msg /\ sends'[c].pc = "sleep")
    BY <1>4, <2>2 DEF OnItsWay, Running
  <2>8. SentHere'
    BY <1>4, <2>1, <2>6, <2>7 DEF SentHere, Calm
  <2>9. \A m \in Messages : Pending(m)' => Pending(m)
    BY <1>4, <2>2, <2>6, <2>7 DEF Pending
  <2>10. RowsAreOwed'
    <3>1. \A m \in Messages : RowCount(m) \in Nat /\ kept[m] \in Nat /\ kept'[m] \in Nat
      BY <1>1, RowCountType DEF SendType
    <3>2. \A m \in Messages : RowCount(m) <= kept[m] + IF Pending(m) THEN 0 ELSE 1
      BY <2>1 DEF Calm, RowsAreOwed
    <3> SUFFICES ASSUME NEW m \in Messages
                 PROVE  RowCount(m)' <= kept'[m] + IF Pending(m)' THEN 0 ELSE 1
      BY DEF RowsAreOwed
    <3> QED
      BY <2>9, <3>1, <3>2
  <2> QED
    BY <2>3, <2>4, <2>5, <2>8, <2>10 DEF Calm
<1> QED
  BY <1>6, <1>7, <1>8 DEF SendInv

(* Nothing stored, or one row stored or queued and counted.                *)
LEMMA KeepBalances ==
    ASSUME SendType, NEW c \in Calls, Running(c),
           \/ UNCHANGED <<stored, queue, kept>>
           \/ stored' = stored \cup {Row(c)} /\ Keep(c) /\ UNCHANGED queue
           \/ queue' = queue \cup {Row(c)} /\ Keep(c) /\ UNCHANGED stored
    PROVE  /\ stored \subseteq stored' /\ IsFiniteSet(stored') /\ IsFiniteSet(queue')
           /\ kept' \in [Messages -> Nat]
           /\ \A m \in Messages : RowCount(m)' \in Nat
           /\ \A m \in Messages : RowCount(m)' - kept'[m] <= RowCount(m) - kept[m]
<1>1. \A m \in Messages : RowCount(m) \in Nat /\ kept[m] \in Nat
  BY RowCountType DEF SendType
<1>2. stored \subseteq stored' /\ IsFiniteSet(stored') /\ IsFiniteSet(queue')
  BY FS_AddElement DEF SendType
<1>3. CASE UNCHANGED <<stored, queue, kept>>
  <2>1. \A m \in Messages : RowCount(m)' = RowCount(m)
    BY <1>3 DEF RowCount, RowsOf
  <2> QED
    BY <1>1, <1>2, <1>3, <2>1 DEF SendType
<1>4. CASE Keep(c) /\ stored' \cup queue' = (stored \cup queue) \cup {Row(c)}
  <2>1. /\ kept' \in [Messages -> Nat]
        /\ \A m \in Messages : kept'[m] = IF m = sends[c].message THEN kept[m] + 1 ELSE kept[m]
    BY <1>1, <1>4 DEF SendType, Keep
  <2>2. \A m \in Messages : /\ RowCount(m)' \in Nat /\ RowCount(m)' <= RowCount(m) + 1
                            /\ sends[c].message # m => RowCount(m)' = RowCount(m)
    BY <1>4, RowAdds
  <2> QED
    BY <1>1, <1>2, <2>1, <2>2
<1> QED
  BY <1>3, <1>4

(* Every step of the chat screen, and of the other, keeps the invariant.   *)
LEMMA SendStep == SendInv /\ [SendNext]_sendVars => SendInv'
<1> SUFFICES ASSUME SendInv, [SendNext]_sendVars
             PROVE  SendInv'
  OBVIOUS
<1>0. SendType /\ SentHasRow /\ (~crossed => Calm)
  BY DEF SendInv
<1>1. ASSUME NEW c \in Calls, NEW m \in Messages, Send(c, m)
      PROVE  SendInv'
  <2>1. /\ Attempt(c, m, 1, conv) /\ UNCHANGED <<bubble, conv, convs, stored, queue, kept>>
        /\ last' = m /\ bubble[m] = "none" /\ ~isSending /\ conv \in Nat
    BY <1>0, <1>1 DEF Send, SendType
  <2>2. crossed' \in BOOLEAN /\ (crossed => crossed')
    BY <1>1 DEF Send
  <2>3. ASSUME ~crossed'
        PROVE  /\ \A d \in Calls : ~Running(d)
               /\ conv = None => \A k \in Messages : bubble[k] # "sent"
    <3>1. ~crossed /\ (status = "sent" => \A d \in Calls : ~Running(d))
      BY <1>1, <2>3 DEF Send
    <3> QED
      BY <1>0, <2>1, <3>1 DEF Calm, StatusTells, InConversation
  <2>4. Pending(m)
    BY <2>1 DEF Pending
  <2> QED
    BY <2>1, <2>2, <2>3, <2>4, AttemptKeeps
<1>2. ASSUME NEW c \in Calls, Retry(c)
      PROVE  SendInv'
  <2>1. /\ Attempt(c, last, 1, conv) /\ UNCHANGED <<bubble, conv, convs, stored, queue, kept>>
        /\ last \in Messages /\ last' = last /\ error /\ conv \in Nat
    BY <1>0, <1>2 DEF Retry, SendType
  <2>2. crossed' = crossed /\ crossed \in BOOLEAN
    BY <1>0, <1>2 DEF Retry, SendType
  <2>3. ASSUME ~crossed
        PROVE  /\ \A d \in Calls : ~Running(d)
               /\ conv = None => \A k \in Messages : bubble[k] # "sent"
    BY <1>0, <2>1, <2>3 DEF Calm, BannerOnlyAtRest, InConversation
  <2>4. Pending(last)
    BY <2>1 DEF Pending
  <2> QED
    BY <2>1, <2>2, <2>3, <2>4, AttemptKeeps
<1>3. ASSUME NEW c \in Calls, Wake(c)
      PROVE  SendInv'
  <2> DEFINE m == sends[c].message
             n == sends[c].attempt + 1
             cl == sends[c].closure
  <2>1. /\ Attempt(c, m, n, cl) /\ UNCHANGED <<bubble, conv, convs, stored, queue, kept>>
        /\ last' = last /\ last \in Messages \cup {NoMessage} /\ Running(c)
        /\ m \in Messages /\ n \in Nat /\ cl \in Nat
    BY <1>0, <1>3 DEF Wake, SendType, Sends, Running
  <2>2. crossed' = crossed /\ crossed \in BOOLEAN
    BY <1>0, <1>3 DEF Wake, SendType
  <2>3. Pending(m)
    BY <2>1 DEF Pending, OnItsWay
  <2>4. ASSUME ~crossed
        PROVE  /\ last = m
               /\ \A d \in Calls : Running(d) => d = c
               /\ cl # None => cl = conv
               /\ cl = None => \A k \in Messages : bubble[k] = "sent" => k = m
    BY <1>0, <2>1, <2>4 DEF Calm, OneCall, InConversation
  <2> HIDE DEF n, cl
  <2> QED
    BY <2>1, <2>2, <2>3, <2>4, AttemptKeeps
<1>4. ASSUME NEW c \in Calls, Recalled(c)
      PROVE  SendInv'
  <2> DEFINE msg == sends[c].message
  <2>1. /\ Running(c) /\ msg \in Messages /\ sends[c] \in Sends
        /\ bubble' \in [Messages -> Bubbles]
        /\ \A m \in Messages : bubble'[m] = "sent" => bubble[m] = "sent"
        /\ \A m \in Messages : bubble'[m] = "none" => bubble[m] = "none"
        /\ \A m \in Messages : m # msg => bubble'[m] = bubble[m]
        /\ status' = "sending" /\ UNCHANGED <<error, last, stored, queue, kept, crossed>>
    BY <1>0, <1>4 DEF Recalled, SendType, Running, Bubbles
  <2>2. /\ sends' \in [Calls -> Sends]
        /\ \A d \in Calls : d # c => sends'[d] = sends[d]
        /\ sends'[c].pc = "infer" /\ sends'[c].message = msg /\ sends'[c].closure = sends[c].closure
        /\ sends'[c].active = IF sends[c].closure = None THEN conv' ELSE sends[c].closure
        /\ conv' \in Nat /\ convs' \in Nat
        /\ sends[c].closure = None => conv' # None
        /\ sends[c].closure # None => conv' = conv
    <3>1. sends \in [Calls -> Sends] /\ conv \in Nat /\ convs \in Nat
      BY <1>0 DEF SendType
    <3>2. CASE sends[c].closure = None
      <4>1. /\ sends' = [sends EXCEPT ![c].pc = "infer", ![c].active = convs + 1]
            /\ convs' = convs + 1 /\ conv' = convs + 1
        BY <1>4, <3>2 DEF Recalled, Establish
      <4> DEFINE s == [sends[c] EXCEPT !.pc = "infer", !.active = convs + 1]
      <4>2. convs + 1 \in Nat /\ convs + 1 # None
        BY <3>1 DEF None
      <4>3. /\ s \in Sends /\ s.pc = "infer" /\ s.message = msg
            /\ s.closure = sends[c].closure /\ s.active = convs + 1
        BY <2>1, <4>2 DEF Sends
      <4>4. sends' = [sends EXCEPT ![c] = s]
        BY <3>1, <4>1
      <4> HIDE DEF s, msg
      <4>5. sends' \in [Calls -> Sends] /\ sends'[c] = s /\ \A d \in Calls : d # c => sends'[d] = sends[d]
        BY <3>1, <4>3, <4>4
      <4> QED
        BY <3>2, <4>1, <4>2, <4>3, <4>5
    <3>3. CASE sends[c].closure # None
      <4>1. /\ sends' = [sends EXCEPT ![c].pc = "infer", ![c].active = sends[c].closure]
            /\ convs' = convs /\ conv' = conv
        BY <1>4, <3>3 DEF Recalled, Establish
      <4> QED
        BY <2>1, <3>1, <3>3, <4>1 DEF Sends
    <3> QED
      BY <3>2, <3>3
  <2> HIDE DEF msg
  <2>3. \A d \in Calls : Running(d)' <=> Running(d)
    BY <2>1, <2>2 DEF Running
  <2>4. SendType'
    <3>1. \A d \in Calls : Running(d)' => sends'[d].message \in Messages
      BY <1>0, <2>1, <2>2, <2>3 DEF SendType
    <3> QED
      BY <1>0, <2>1, <2>2, <3>1 DEF SendType, Running
  <2>5. SentHasRow'
    BY <1>0, <2>1 DEF SentHasRow
  <2>6. ASSUME ~crossed'
        PROVE  Calm'
    <3>1. Calm /\ \A d \in Calls : Running(d) <=> d = c
      BY <1>0, <2>1, <2>6 DEF Calm, OneCall
    <3>2. last = msg /\ ~error
      BY <2>1, <3>1 DEF Calm, OneCall, BannerOnlyAtRest, msg
    <3>3. OneCall' /\ StatusTells' /\ BannerOnlyAtRest'
      BY <2>1, <2>2, <2>3, <3>1, <3>2 DEF OneCall, StatusTells, BannerOnlyAtRest, isSending
    <3>4. /\ sends[c].closure = None => \A m \in Messages : bubble[m] = "sent" => m = msg
          /\ sends[c].closure # None => sends[c].closure = conv
          /\ conv = None => \A m \in Messages : bubble[m] # "sent"
      BY <2>1, <3>1 DEF Calm, InConversation, msg
    <3>5. InConversation'
      BY <2>1, <2>2, <2>3, <3>1, <3>4 DEF InConversation
    <3>6. \A m \in Messages : /\ OnItsWay(m) <=> m = msg
                              /\ OnItsWay(m)' <=> m = msg
      BY <2>1, <2>2, <2>3, <3>1 DEF OnItsWay, msg
    <3>7. SentHere'
      BY <2>1, <2>2, <3>1, <3>4, <3>6 DEF SentHere, Calm
    <3>8. \A m \in Messages : Pending(m)' => Pending(m)
      BY <2>1, <3>6 DEF Pending
    <3>9. RowsAreOwed'
      BY <1>0, <2>1, <3>1, <3>8, OwedStays DEF Calm
    <3> QED
      BY <3>3, <3>5, <3>7, <3>9 DEF Calm
  <2> QED
    BY <2>4, <2>5, <2>6 DEF SendInv
<1>5. ASSUME NEW c \in Calls, Inferred(c)
      PROVE  SendInv'
  <2>1. /\ Running(c) /\ sends[c] \in Sends /\ sends[c].pc = "infer"
        /\ sends' \in [Calls -> Sends]
        /\ \A d \in Calls : d # c => sends'[d] = sends[d]
        /\ sends'[c].pc = "persist" /\ sends'[c].message = sends[c].message
        /\ sends'[c].closure = sends[c].closure /\ sends'[c].active = sends[c].active
        /\ UNCHANGED <<status, error, last, bubble, conv, convs, stored, queue, kept, crossed>>
    BY <1>0, <1>5 DEF Inferred, SendType, Sends, Running
  <2>2. \A d \in Calls : /\ Running(d)' <=> Running(d)
                         /\ sends'[d].message = sends[d].message
                         /\ sends'[d].closure = sends[d].closure
                         /\ sends'[d].active = sends[d].active
    BY <2>1 DEF Running
  <2>3. SendType'
    BY <1>0, <2>1, <2>2 DEF SendType
  <2>4. SentHasRow'
    BY <1>0, <2>1 DEF SentHasRow
  <2>5. ASSUME ~crossed'
        PROVE  Calm'
    <3>1. Calm
      BY <1>0, <2>1, <2>5
    <3>2. OneCall' /\ BannerOnlyAtRest'
      BY <2>1, <2>2, <3>1 DEF Calm, OneCall, BannerOnlyAtRest
    <3>3. StatusTells'
      BY <2>1, <2>2, <3>1 DEF Calm, StatusTells, isSending
    <3>4. InConversation'
      BY <2>1, <2>2, <3>1 DEF Calm, InConversation
    <3>5. \A m \in Messages : OnItsWay(m)' <=> OnItsWay(m)
      BY <2>2 DEF OnItsWay
    <3>6. SentHere'
      BY <2>1, <3>1, <3>5 DEF Calm, SentHere
    <3>7. RowsAreOwed'
      BY <1>0, <2>1, <3>1, <3>5, OwedStays DEF Calm, Pending
    <3> QED
      BY <3>2, <3>3, <3>4, <3>6, <3>7 DEF Calm
  <2> QED
    BY <2>3, <2>4, <2>5 DEF SendInv
<1>6. ASSUME NEW c \in Calls, Persisted(c)
      PROVE  SendInv'
  <2> DEFINE msg == sends[c].message
  <2>1. /\ Running(c) /\ sends[c].pc = "persist" /\ msg \in Messages
        /\ sends' \in [Calls -> Sends] /\ sends'[c].pc = "idle"
        /\ \A d \in Calls : d # c => sends'[d] = sends[d]
    <3>1. NoSend \in Sends /\ NoSend.pc = "idle"
      BY DEF NoSend, Sends, None
    <3> QED
      BY <1>0, <1>6, <3>1 DEF Persisted, SendType, Running
  <2>2. /\ bubble' \in [Messages -> Bubbles]
        /\ \A m \in Messages : bubble'[m] = IF m = msg THEN "sent" ELSE bubble[m]
    BY <1>0, <1>6, <2>1 DEF Persisted, SendType, Bubbles
  <2>3. /\ stored' = stored \cup {Row(c)} /\ status' = "sent"
        /\ UNCHANGED <<error, last, conv, convs, queue, kept, crossed>>
        /\ Row(c).message = msg /\ Row(c).conv = sends[c].active
    BY <1>6 DEF Persisted, Row
  <2> HIDE DEF msg
  <2>4. \A d \in Calls : Running(d)' <=> (Running(d) /\ d # c)
    BY <2>1 DEF Running
  <2>5. SendType'
    <3>1. \A d \in Calls : Running(d)' => sends'[d].message \in Messages
      BY <1>0, <2>1, <2>4 DEF SendType
    <3>2. IsFiniteSet(stored')
      BY <1>0, <2>3, FS_AddElement DEF SendType
    <3> QED
      BY <1>0, <2>1, <2>2, <2>3, <3>1, <3>2 DEF SendType, Running
  <2>6. SentHasRow'
    BY <1>0, <2>2, <2>3 DEF SentHasRow
  <2>7. ASSUME ~crossed'
        PROVE  Calm'
    <3>1. Calm
      BY <1>0, <2>3, <2>7
    <3>2. /\ \A d \in Calls : Running(d) <=> d = c
          /\ \A d \in Calls : ~Running(d)'
          /\ ~error /\ sends[c].active = conv /\ conv # None
      BY <2>1, <2>4, <3>1 DEF Calm, OneCall, BannerOnlyAtRest, InConversation
    <3>3. OneCall' /\ StatusTells' /\ BannerOnlyAtRest' /\ InConversation'
      BY <2>3, <3>2 DEF OneCall, StatusTells, BannerOnlyAtRest, InConversation
    <3>4. \A m \in Messages : ~OnItsWay(m)' /\ (OnItsWay(m) <=> m = msg)
      BY <2>1, <3>2 DEF OnItsWay, msg
    <3>5. SentHere'
      BY <2>2, <2>3, <3>1, <3>2, <3>4 DEF SentHere, Calm
    <3>6. RowsAreOwed'
      <4> SUFFICES ASSUME NEW m \in Messages
                   PROVE  RowCount(m)' <= kept[m] + IF Pending(m)' THEN 0 ELSE 1
        BY <2>3 DEF RowsAreOwed
      <4>1. RowCount(m) \in Nat /\ kept[m] \in Nat
        BY <1>0, RowCountType DEF SendType
      <4>2. /\ RowCount(m)' \in Nat /\ RowCount(m)' <= RowCount(m) + 1
            /\ msg # m => RowCount(m)' = RowCount(m)
        <5>1. stored' \cup queue' = (stored \cup queue) \cup {Row(c)}
          BY <2>3
        <5> QED
          BY <1>0, <5>1, RowAdds DEF msg
      <4>3. RowCount(m) <= kept[m] + IF Pending(m) THEN 0 ELSE 1
        BY <3>1 DEF Calm, RowsAreOwed
      <4>4. /\ Pending(m)' => Pending(m) /\ m # msg
            /\ m = msg => Pending(m)
        BY <2>2, <2>3, <3>2, <3>4 DEF Pending
      <4> QED
        BY <4>1, <4>2, <4>3, <4>4
    <3> QED
      BY <3>3, <3>5, <3>6 DEF Calm
  <2> QED
    BY <2>5, <2>6, <2>7 DEF SendInv
<1>7. ASSUME NEW c \in Calls, Thrown(c)
      PROVE  SendInv'
  <2>1. /\ sends[c].pc = "persist" /\ Running(c) /\ stored' = stored \cup {Row(c)} /\ Keep(c)
        /\ UNCHANGED <<last, conv, convs, queue, crossed>>
    BY <1>7 DEF Thrown, Running
  <2>2. PICK network \in BOOLEAN :
          Catch(c, network, [bubble EXCEPT ![sends[c].message] = "sent"], "sent")
    BY <1>7 DEF Thrown
  <2>3. /\ stored \subseteq stored' /\ IsFiniteSet(stored') /\ IsFiniteSet(queue')
        /\ kept' \in [Messages -> Nat]
        /\ \A m \in Messages : RowCount(m)' \in Nat
        /\ \A m \in Messages : RowCount(m)' - kept'[m] <= RowCount(m) - kept[m]
    BY <1>0, <2>1, KeepBalances
  <2>4. Row(c) \in stored'
    BY <2>1
  <2> QED
    BY <2>1, <2>2, <2>3, <2>4, CatchKeeps
<1>8. ASSUME NEW c \in Calls, InferenceFails(c)
      PROVE  SendInv'
  <2>1. /\ sends[c].pc = "infer" /\ Running(c)
        /\ UNCHANGED <<last, conv, convs, stored, queue, kept, crossed>>
    BY <1>8 DEF InferenceFails, Running
  <2>2. PICK network \in BOOLEAN : Catch(c, network, bubble, status)
    BY <1>8 DEF InferenceFails
  <2>3. /\ stored \subseteq stored' /\ IsFiniteSet(stored') /\ IsFiniteSet(queue')
        /\ kept' \in [Messages -> Nat]
        /\ \A m \in Messages : RowCount(m)' \in Nat
        /\ \A m \in Messages : RowCount(m)' - kept'[m] <= RowCount(m) - kept[m]
    BY <1>0, <2>1, KeepBalances
  <2> QED
    BY <2>1, <2>2, <2>3, CatchKeeps
<1>9. ASSUME NEW c \in Calls, PersistFails(c)
      PROVE  SendInv'
  <2>1. /\ sends[c].pc = "persist" /\ Running(c)
        /\ \/ UNCHANGED <<stored, queue, kept>>
           \/ stored' = stored \cup {Row(c)} /\ Keep(c) /\ UNCHANGED queue
           \/ queue' = queue \cup {Row(c)} /\ Keep(c) /\ UNCHANGED stored
        /\ UNCHANGED <<last, conv, convs, crossed>>
    BY <1>9 DEF PersistFails, Running
  <2>2. PICK network \in BOOLEAN : Catch(c, network, bubble, status)
    BY <1>9 DEF PersistFails
  <2>3. /\ stored \subseteq stored' /\ IsFiniteSet(stored') /\ IsFiniteSet(queue')
        /\ kept' \in [Messages -> Nat]
        /\ \A m \in Messages : RowCount(m)' \in Nat
        /\ \A m \in Messages : RowCount(m)' - kept'[m] <= RowCount(m) - kept[m]
    BY <1>0, <2>1, KeepBalances
  <2> QED
    BY <2>1, <2>2, <2>3, CatchKeeps
<1>10. CASE Replay \/ UNCHANGED sendVars
  <2>1. /\ stored' \cup queue' = stored \cup queue /\ stored \subseteq stored'
        /\ IsFiniteSet(stored') /\ IsFiniteSet(queue')
        /\ UNCHANGED <<status, error, sends, last, bubble, conv, convs, kept, crossed>>
    <3>1. CASE Replay
      <4>1. PICK row \in queue : stored' = stored \cup {row} /\ queue' = queue \ {row}
        BY <3>1 DEF Replay
      <4>2. IsFiniteSet(stored') /\ IsFiniteSet(queue')
        BY <1>0, <4>1, FS_AddElement, FS_RemoveElement DEF SendType
      <4> QED
        BY <3>1, <4>1, <4>2 DEF Replay
    <3>2. CASE UNCHANGED sendVars
      BY <1>0, <3>2 DEF sendVars, SendType
    <3> QED
      BY <1>10, <3>1, <3>2
  <2>2. SendType' /\ SentHasRow'
    BY <1>0, <2>1 DEF SendType, SentHasRow, Running
  <2>3. ASSUME ~crossed'
        PROVE  Calm'
    <3>1. Calm
      BY <1>0, <2>1, <2>3
    <3>2. OneCall' /\ StatusTells' /\ BannerOnlyAtRest' /\ InConversation'
      BY <2>1, <3>1 DEF Calm, OneCall, StatusTells, BannerOnlyAtRest, InConversation, Running, isSending
    <3>3. \A m \in Messages : OnItsWay(m)' <=> OnItsWay(m)
      BY <2>1 DEF OnItsWay, Running
    <3>4. SentHere'
      BY <2>1, <3>1, <3>3 DEF Calm, SentHere
    <3>5. RowsAreOwed'
      BY <1>0, <2>1, <3>1, <3>3, OwedStays DEF Calm, Pending
    <3> QED
      BY <3>2, <3>4, <3>5 DEF Calm
  <2> QED
    BY <2>2, <2>3 DEF SendInv
<1> QED
  BY <1>1, <1>2, <1>3, <1>4, <1>5, <1>6, <1>7, <1>8, <1>9, <1>10 DEF SendNext

-----------------------------------------------------------------------------
(* The voice screen *)

Pcs == {"none", "permission", "mode", "prepare", "recording", "unload", "stop", "read", "transcribe",
        "frame", "over"}

TakeSet == [screen : Nat, pc : Pcs, left : BOOLEAN]

VoiceType ==
    /\ held \in Takes \cup {NoTake}
    /\ screen \in Nat /\ nTakes \in Nat
    /\ takes \in [Takes -> TakeSet]
    /\ hasty \subseteq Nat

(* What was before this visit, and what is not yet. *)
InThePast ==
    /\ \A s \in hasty : s <= screen
    /\ \A i \in Takes :
          /\ takes[i].screen <= screen
          /\ takes[i].left => takes[i].screen < screen
          /\ i > nTakes => takes[i].pc = "none"

(* The reference is to a recording of this visit. *)
HeldRecords == held # NoTake => takes[held].pc = "recording" /\ OnScreen(held)

(* A recording outlives its visit only with an excuse. *)
NoneLeftBehind ==
    \A i \in Takes :
        takes[i].pc = "recording" /\ ~takes[i].left /\ takes[i].screen \notin hasty => OnScreen(i)

Active(i) == OnScreen(i) /\ takes[i].pc \notin {"none", "over"}

(* The status tells where the take of this visit is. *)
Told(i) ==
    /\ takes[i].pc \in {"permission", "mode", "prepare"} => voice = "requesting_permission"
    /\ takes[i].pc \in {"recording", "unload"} => voice = "recording"
    /\ takes[i].pc \in {"stop", "read", "transcribe"} => voice = "transcribing"
    /\ takes[i].pc = "frame" => voice = "done"
    /\ held = IF takes[i].pc = "recording" THEN i ELSE NoTake

(* There is one at most. *)
OneTake ==
    screen \notin hasty =>
        /\ \A i \in Takes : Active(i) => Told(i)
        /\ \A i, j \in Takes : Active(i) /\ Active(j) => i = j

VoiceInv == VoiceType /\ InThePast /\ HeldRecords /\ NoneLeftBehind /\ OneTake

(* What a change of one take does, field by field.                         *)
LEMMA GoesOn ==
    ASSUME takes \in [Takes -> TakeSet], NEW i \in Takes, NEW p \in Pcs, Goes(i, p)
    PROVE  /\ takes' \in [Takes -> TakeSet]
           /\ \A j \in Takes : /\ takes'[j].screen = takes[j].screen
                               /\ takes'[j].left = takes[j].left
                               /\ takes'[j].pc = IF j = i THEN p ELSE takes[j].pc
BY DEF Goes, TakeSet

(* The hook mounts with no take.                                           *)
LEMMA VoiceStarts == VoiceInit => VoiceInv
<1> SUFFICES ASSUME VoiceInit
             PROVE  VoiceInv
  OBVIOUS
<1>1. \A i \in Takes : takes[i] = [screen |-> 0, pc |-> "none", left |-> FALSE]
  BY DEF VoiceInit, NotTaken
<1>2. VoiceType
  BY <1>1 DEF VoiceInit, VoiceType, TakeSet, Pcs, NotTaken
<1>3. InThePast /\ HeldRecords /\ NoneLeftBehind /\ OneTake
  BY <1>1 DEF VoiceInit, InThePast, HeldRecords, NoneLeftBehind, OneTake, Active
<1> QED
  BY <1>2, <1>3 DEF VoiceInv

(* A take of the visit moves on without its recording beginning or ending, *)
(* and the status with it; one of an earlier visit changes no status.      *)
LEMMA MoveKeeps ==
    ASSUME VoiceInv, NEW i \in Takes, NEW p \in Pcs \ {"recording"}, Goes(i, p),
           takes[i].pc \notin {"none", "recording", "over"}, p # "none",
           UNCHANGED <<held, screen, nTakes, hasty>>,
           ~OnScreen(i) => voice' = voice,
           OnScreen(i) /\ screen \notin hasty /\ p # "over" =>
               /\ p \in {"permission", "mode", "prepare"} => voice' = "requesting_permission"
               /\ p = "unload" => voice' = "recording"
               /\ p \in {"stop", "read", "transcribe"} => voice' = "transcribing"
               /\ p = "frame" => voice' = "done"
    PROVE  VoiceInv'
<1> USE DEF VoiceInv
<1>1. /\ takes \in [Takes -> TakeSet] /\ takes' \in [Takes -> TakeSet]
      /\ \A j \in Takes : /\ takes'[j].screen = takes[j].screen
                          /\ takes'[j].left = takes[j].left
                          /\ takes'[j].pc = IF j = i THEN p ELSE takes[j].pc
  BY GoesOn DEF VoiceType
<1>2. VoiceType'
  BY <1>1 DEF VoiceType
<1>3. InThePast'
  BY <1>1 DEF InThePast
<1>4. HeldRecords'
  <2>1. held # NoTake => held \in Takes /\ held # i
    BY DEF VoiceType, HeldRecords
  <2> QED
    BY <1>1, <2>1 DEF HeldRecords, OnScreen
<1>5. NoneLeftBehind'
  BY <1>1 DEF NoneLeftBehind, OnScreen
<1>6. OneTake'
  <2> SUFFICES ASSUME screen \notin hasty
               PROVE  /\ \A j \in Takes : Active(j)' => Told(j)'
                      /\ \A j, k \in Takes : Active(j)' /\ Active(k)' => j = k
    BY DEF OneTake
  <2>1. \A j \in Takes : Active(j)' => Active(j)
    BY <1>1 DEF Active, OnScreen
  <2>2. \A j \in Takes : Active(j) => Told(j)
    BY DEF OneTake
  <2>3. \A j, k \in Takes : Active(j) /\ Active(k) => j = k
    BY DEF OneTake
  <2>4. ASSUME NEW j \in Takes, Active(j)'
        PROVE  Told(j)'
    <3>1. CASE j = i
      BY <1>1, <2>1, <2>2, <2>4, <3>1 DEF Told, Active, OnScreen, Pcs
    <3>2. CASE j # i
      <4>1. Active(j) /\ ~Active(i)
        BY <2>1, <2>3, <2>4, <3>2
      <4>2. ~OnScreen(i)
        BY <4>1 DEF Active
      <4> QED
        BY <1>1, <2>2, <3>2, <4>1, <4>2 DEF Told
    <3> QED
      BY <3>1, <3>2
  <2> QED
    BY <2>1, <2>3, <2>4
<1> QED
  BY <1>2, <1>3, <1>4, <1>5, <1>6

(* The steps of a take that MoveKeeps speaks of.                           *)
LEMMA MovesKeep ==
    ASSUME VoiceInv, NEW i \in Takes,
           \/ PermissionAnswered(i) \/ ModeSet(i) \/ Unloaded(i) \/ Stopped(i)
           \/ AudioRead(i) \/ Transcribed(i) \/ Frame(i)
           \/ Recording(i) /\ Goes(i, "over")
    PROVE  VoiceInv'
<1>1. /\ "over" \in Pcs /\ "mode" \in Pcs /\ "prepare" \in Pcs /\ "read" \in Pcs
      /\ "transcribe" \in Pcs /\ "frame" \in Pcs
  BY DEF Pcs
<1>2. OnScreen(i) /\ screen \notin hasty /\ takes[i].pc \notin {"none", "over"} => Told(i)
  BY DEF VoiceInv, OneTake, Active
<1>3. CASE PermissionAnswered(i)
  BY <1>1, <1>2, <1>3, MoveKeeps DEF PermissionAnswered, SetStatus, Told
<1>4. CASE ModeSet(i)
  BY <1>1, <1>2, <1>4, MoveKeeps DEF ModeSet, SetStatus, Told
<1>5. CASE Unloaded(i)
  BY <1>1, <1>5, MoveKeeps DEF Unloaded, SetStatus
<1>6. CASE Stopped(i)
  BY <1>1, <1>2, <1>6, MoveKeeps DEF Stopped, SetStatus, Told
<1>7. CASE AudioRead(i)
  BY <1>1, <1>2, <1>7, MoveKeeps DEF AudioRead, SetStatus, Told
<1>8. CASE Transcribed(i)
  BY <1>1, <1>8, MoveKeeps DEF Transcribed, SetStatus
<1>9. CASE Frame(i)
  BY <1>1, <1>9, MoveKeeps DEF Frame, SetStatus
<1>10. CASE Recording(i) /\ Goes(i, "over")
  <2>1. Goes(i, "over") /\ UNCHANGED held /\ (~OnScreen(i) => voice' = voice)
    BY <1>10 DEF Recording, Goes, SetStatus, VoiceInv, VoiceType, TakeSet
  <2> QED
    BY <1>1, <1>10, <2>1, MoveKeeps DEF Recording
<1> QED
  BY <1>3, <1>4, <1>5, <1>6, <1>7, <1>8, <1>9, <1>10

(* The held take is stopped, for good or to be read: no recording of the   *)
(* visit is left that the hook should know of.                             *)
LEMMA StopKeeps ==
    ASSUME VoiceInv, held # NoTake, NEW p \in {"over", "unload", "stop"}, Goes(held, p),
           held' = NoTake, UNCHANGED <<screen, nTakes, hasty>>,
           p = "unload" => voice = "recording" /\ voice' = voice,
           p = "stop" => voice' = "transcribing"
    PROVE  VoiceInv'
<1> USE DEF VoiceInv
<1>1. /\ held \in Takes /\ takes[held].pc = "recording" /\ OnScreen(held)
      /\ NoTake \notin Takes
  BY DEF VoiceType, HeldRecords, NoTake, Takes
<1>2. /\ takes \in [Takes -> TakeSet] /\ takes' \in [Takes -> TakeSet]
      /\ \A j \in Takes : /\ takes'[j].screen = takes[j].screen
                          /\ takes'[j].left = takes[j].left
                          /\ takes'[j].pc = IF j = held THEN p ELSE takes[j].pc
  <2>1. p \in Pcs
    BY DEF Pcs
  <2> QED
    BY <1>1, <2>1, GoesOn DEF VoiceType
<1>3. VoiceType'
  BY <1>2 DEF VoiceType
<1>4. InThePast'
  BY <1>1, <1>2 DEF InThePast
<1>5. HeldRecords'
  BY DEF HeldRecords
<1>6. NoneLeftBehind'
  BY <1>2 DEF NoneLeftBehind, OnScreen
<1>7. OneTake'
  <2> SUFFICES ASSUME screen \notin hasty
               PROVE  /\ \A j \in Takes : Active(j)' => Told(j)'
                      /\ \A j, k \in Takes : Active(j)' /\ Active(k)' => j = k
    BY DEF OneTake
  <2>1. \A j \in Takes : Active(j)' => Active(j)
    BY <1>1, <1>2 DEF Active, OnScreen
  <2>2. \A j, k \in Takes : Active(j) /\ Active(k) => j = k
    BY DEF OneTake
  <2>3. Active(held)
    BY <1>1 DEF Active
  <2>4. ASSUME NEW j \in Takes, Active(j)'
        PROVE  Told(j)'
    <3>1. j = held
      <4>1. Active(j)
        BY <2>1, <2>4
      <4> QED
        BY <1>1, <2>2, <2>3, <4>1
    <3>2. takes'[j].pc = p /\ takes[j].pc = "recording"
      BY <1>1, <1>2, <3>1
    <3>3. p # "over"
      BY <2>4, <3>2 DEF Active
    <3> QED
      BY <3>2, <3>3 DEF Told
  <2> QED
    BY <2>1, <2>2, <2>4
<1> QED
  BY <1>3, <1>4, <1>5, <1>6, <1>7

(* Every step of the voice screen, and of the other, keeps the invariant.  *)
LEMMA VoiceStep == VoiceInv /\ [VoiceNext]_voiceVars => VoiceInv'
<1> SUFFICES ASSUME VoiceInv, [VoiceNext]_voiceVars
             PROVE  VoiceInv'
  OBVIOUS
<1> USE DEF VoiceInv
<1>1. CASE StartRecording
  <2> DEFINE n == nTakes + 1
  <2>1. /\ n \in Takes /\ nTakes' = n /\ n \in Nat /\ takes[n].pc = "none"
        /\ voice = "idle" /\ voice' = "requesting_permission"
        /\ UNCHANGED <<held, screen, hasty>>
    BY <1>1, BoundsAssumption DEF StartRecording, VoiceType, InThePast, Takes
  <2> DEFINE p == IF granted THEN "mode" ELSE "permission"
  <2>2. /\ p \in {"mode", "permission"}
        /\ takes' = [takes EXCEPT ![n] = [screen |-> screen, pc |-> p, left |-> FALSE]]
    BY <1>1 DEF StartRecording
  <2> HIDE DEF n, p
  <2>3. /\ takes' \in [Takes -> TakeSet]
        /\ takes'[n] = [screen |-> screen, pc |-> p, left |-> FALSE]
        /\ \A j \in Takes : j # n => takes'[j] = takes[j]
    BY <2>1, <2>2 DEF VoiceType, TakeSet, Pcs
  <2>4. held # NoTake => held \in Takes /\ held # n
    BY <2>1 DEF VoiceType, HeldRecords
  <2>5. VoiceType'
    BY <2>1, <2>3 DEF VoiceType
  <2>6. InThePast'
    <3>1. \A j \in Takes : j > nTakes' => j > nTakes /\ j # n
      BY <2>1 DEF VoiceType, Takes, n
    <3> QED
      BY <2>1, <2>3, <3>1 DEF InThePast, VoiceType
  <2>7. HeldRecords'
    BY <2>1, <2>3, <2>4 DEF HeldRecords, OnScreen
  <2>8. NoneLeftBehind'
    BY <2>1, <2>3 DEF NoneLeftBehind, OnScreen
  <2>9. OneTake'
    <3> SUFFICES ASSUME screen \notin hasty
                 PROVE  /\ \A j \in Takes : Active(j)' => Told(j)'
                        /\ \A j, k \in Takes : Active(j)' /\ Active(k)' => j = k
      BY <2>1 DEF OneTake
    <3>1. \A j \in Takes : ~Active(j)
      BY <2>1 DEF OneTake, Told, Active, VoiceType, TakeSet, Pcs
    <3>2. \A j \in Takes : Active(j)' => j = n
      BY <2>1, <2>3, <3>1 DEF Active, OnScreen
    <3>3. held = NoTake
      BY <3>1 DEF HeldRecords, Active, VoiceType
    <3>4. ASSUME NEW j \in Takes, Active(j)'
          PROVE  Told(j)'
      <4>1. takes'[j].pc = p
        BY <2>3, <3>2, <3>4
      <4> QED
        BY <2>1, <2>2, <3>3, <4>1 DEF Told
    <3> QED
      BY <3>2, <3>4
  <2> QED
    BY <2>5, <2>6, <2>7, <2>8, <2>9
<1>2. CASE StopRecording
  <2>1. PICK p \in {"unload", "stop"} : Goes(held, p) /\ voice' = IF p = "unload" THEN voice ELSE "transcribing"
    BY <1>2 DEF StopRecording
  <2> QED
    BY <1>2, <2>1, StopKeeps DEF StopRecording
<1>3. CASE CancelRecording
  <2>1. CASE held = NoTake
    <3>1. UNCHANGED <<takes, held, screen, nTakes>> /\ hasty' = hasty \cup {screen}
      BY <1>3, <2>1 DEF CancelRecording, Silenced
    <3>2. VoiceType' /\ InThePast' /\ HeldRecords' /\ NoneLeftBehind'
      BY <3>1 DEF VoiceType, InThePast, HeldRecords, NoneLeftBehind, OnScreen
    <3>3. OneTake'
      BY <3>1 DEF OneTake
    <3> QED
      BY <3>2, <3>3
  <2>2. CASE held # NoTake
    BY <1>3, <2>2, StopKeeps DEF CancelRecording, Silenced, Goes
  <2> QED
    BY <2>1, <2>2
<1>4. CASE LeaveScreen
  <2>1. screen \in Nat /\ screen' = screen + 1 /\ held' = NoTake /\ UNCHANGED <<nTakes, hasty>>
    BY <1>4 DEF LeaveScreen, VoiceType
  <2>2. /\ takes' \in [Takes -> TakeSet]
        /\ \A j \in Takes : /\ takes'[j].screen = takes[j].screen
                            /\ takes'[j].left = takes[j].left
                            /\ takes'[j].pc = IF j = held THEN "over" ELSE takes[j].pc
    <3>1. NoTake \notin Takes
      BY DEF NoTake, Takes
    <3>2. takes \in [Takes -> TakeSet] /\ "over" \in Pcs
      BY DEF VoiceType, Pcs
    <3>3. CASE held = NoTake
      BY <1>4, <3>1, <3>2, <3>3 DEF LeaveScreen, Silenced
    <3>4. CASE held # NoTake
      <4>1. held \in Takes /\ Goes(held, "over")
        BY <1>4, <3>4 DEF LeaveScreen, Silenced, Goes, VoiceType
      <4> QED
        BY <3>2, <4>1, GoesOn
    <3> QED
      BY <3>3, <3>4
  <2>3. \A j \in Takes : takes[j].screen \in Nat /\ takes[j].screen < screen'
    BY <2>1 DEF InThePast, VoiceType, TakeSet
  <2>4. VoiceType'
    BY <2>1, <2>2 DEF VoiceType
  <2>5. InThePast'
    <3>1. \A s \in hasty : s <= screen'
      BY <2>1 DEF InThePast, VoiceType
    <3>2. \A j \in Takes : j > nTakes => j # held
      <4>1. held # NoTake => held <= nTakes
        BY DEF HeldRecords, InThePast, VoiceType, Takes
      <4> QED
        BY <4>1 DEF NoTake, Takes, VoiceType
    <3>3. \A j \in Takes : j > nTakes => takes'[j].pc = "none"
      BY <2>2, <3>2 DEF InThePast
    <3> QED
      BY <2>1, <2>2, <2>3, <3>1, <3>3 DEF InThePast
  <2>6. HeldRecords'
    BY <2>1 DEF HeldRecords
  <2>7. NoneLeftBehind'
    <3> SUFFICES ASSUME NEW j \in Takes, takes'[j].pc = "recording", ~takes'[j].left, takes'[j].screen \notin hasty
                 PROVE  FALSE
      BY <2>1 DEF NoneLeftBehind
    <3>1. takes[j].pc = "recording" /\ j # held /\ OnScreen(j) /\ screen \notin hasty
      BY <2>2 DEF NoneLeftBehind, OnScreen
    <3>2. Told(j)
      BY <3>1 DEF OneTake, Active
    <3> QED
      BY <3>1, <3>2 DEF Told
  <2>8. OneTake'
    BY <2>2, <2>3 DEF OneTake, Active, OnScreen
  <2> QED
    BY <2>4, <2>5, <2>6, <2>7, <2>8
<1>5. ASSUME NEW i \in Takes, Recording(i), ~Goes(i, "over")
      PROVE  VoiceInv'
  <2>1. /\ takes[i].pc = "prepare"
        /\ takes' = [takes EXCEPT ![i].pc = "recording", ![i].left = ~OnScreen(i)]
        /\ held' = IF OnScreen(i) THEN i ELSE held
        /\ voice' = IF OnScreen(i) THEN "recording" ELSE voice
        /\ UNCHANGED <<screen, nTakes, hasty>>
    BY <1>5 DEF Recording, SetStatus
  <2>2. /\ takes' \in [Takes -> TakeSet]
        /\ \A j \in Takes : /\ takes'[j].screen = takes[j].screen
                            /\ takes'[j].left = IF j = i THEN ~OnScreen(i) ELSE takes[j].left
                            /\ takes'[j].pc = IF j = i THEN "recording" ELSE takes[j].pc
    <3>1. takes \in [Takes -> TakeSet] /\ "recording" \in Pcs /\ OnScreen(i) \in BOOLEAN
      BY DEF VoiceType, Pcs, OnScreen
    <3> QED
      BY <2>1, <3>1 DEF TakeSet
  <2>3. held # NoTake => held \in Takes /\ held # i
    BY <2>1 DEF VoiceType, HeldRecords
  <2>4. VoiceType'
    BY <2>1, <2>2 DEF VoiceType
  <2>5. InThePast'
    BY <2>1, <2>2 DEF InThePast, OnScreen, VoiceType, TakeSet
  <2>6. HeldRecords'
    BY <2>1, <2>2, <2>3 DEF HeldRecords, OnScreen
  <2>7. NoneLeftBehind'
    BY <2>1, <2>2 DEF NoneLeftBehind, OnScreen
  <2>8. OneTake'
    <3> SUFFICES ASSUME screen \notin hasty
                 PROVE  /\ \A j \in Takes : Active(j)' => Told(j)'
                        /\ \A j, k \in Takes : Active(j)' /\ Active(k)' => j = k
      BY <2>1 DEF OneTake
    <3>1. \A j \in Takes : Active(j)' => Active(j)
      BY <2>1, <2>2 DEF Active, OnScreen
    <3>2. \A j, k \in Takes : Active(j) /\ Active(k) => j = k
      BY DEF OneTake
    <3>3. ASSUME NEW j \in Takes, Active(j)'
          PROVE  Told(j)'
      <4>1. Active(j) /\ Told(j)
        BY <3>1, <3>3 DEF OneTake
      <4>2. CASE j = i
        BY <2>1, <2>2, <4>1, <4>2 DEF Told, Active
      <4>3. CASE j # i
        <5>1. ~OnScreen(i)
          BY <2>1, <3>2, <4>1, <4>3 DEF Active
        <5> QED
          BY <2>1, <2>2, <4>1, <4>3, <5>1 DEF Told
      <4> QED
        BY <4>2, <4>3
    <3> QED
      BY <3>1, <3>2, <3>3
  <2> QED
    BY <2>4, <2>5, <2>6, <2>7, <2>8
<1>6. CASE UNCHANGED voiceVars
  <2>1. VoiceType' /\ InThePast' /\ HeldRecords' /\ NoneLeftBehind'
    BY <1>6 DEF voiceVars, VoiceType, InThePast, HeldRecords, NoneLeftBehind, OnScreen
  <2>2. OneTake'
    BY <1>6 DEF voiceVars, OneTake, Active, Told, OnScreen
  <2> QED
    BY <2>1, <2>2
<1> QED
  BY <1>1, <1>2, <1>3, <1>4, <1>5, <1>6, MovesKeep DEF VoiceNext

-----------------------------------------------------------------------------
(* Both screens: neither's steps change the other's variables.             *)
LEMMA BothHold == Spec => [](SendInv /\ VoiceInv)
<1>1. Init => SendInv /\ VoiceInv
  BY SendStarts, VoiceStarts DEF Init
<1>2. SendInv /\ VoiceInv /\ [Next]_vars => (SendInv /\ VoiceInv)'
  <2>1. [Next]_vars => [SendNext]_sendVars /\ [VoiceNext]_voiceVars
    BY DEF Next, vars, Texting, Speaking
  <2> QED
    BY <2>1, SendStep, VoiceStep
<1> QED
  BY <1>1, <1>2, PTL DEF Spec

(* The state of both screens stays well-typed, for every set of messages   *)
(* and every bound (useSendMessage.ts, useVoiceInput.ts).                  *)
THEOREM TypeCorrect == Spec => [](SendType /\ VoiceType)
<1>1. SendInv /\ VoiceInv => SendType /\ VoiceType
  BY DEF SendInv, VoiceInv
<1> QED
  BY <1>1, BothHold, PTL

(* A message marked sent is on the server, in the conversation on the      *)
(* screen but for the two cases SentIsStored names, however often sends    *)
(* fail and are retried (useSendMessage.ts).                               *)
THEOREM SentMeansStored == Spec => []SentIsStored
<1>1. SendInv => SentIsStored
  <2>1. CASE SendInv /\ crossed
    BY <2>1 DEF SendInv, SentHasRow, SentIsStored
  <2>2. CASE SendInv /\ ~crossed
    BY <2>2 DEF SendInv, SentHasRow, Calm, SentHere, OnItsWay, SentIsStored
  <2> QED
    BY <2>1, <2>2
<1> QED
  BY <1>1, BothHold, PTL

(* Until sends cross, a message has at most one row more than the attempts *)
(* of it that were taken for failed although their row was kept            *)
(* (useSendMessage.ts), whatever MAX_NETWORK_RETRIES is.                   *)
THEOREM StoredOncePerAnswer == Spec => []StoredOnce
<1>1. SendInv => StoredOnce
  <2> SUFFICES ASSUME SendInv, ~crossed, NEW m \in Messages
               PROVE  Cardinality(RowsOf(stored \cup queue, m)) <= 1 + kept[m]
    BY DEF StoredOnce
  <2>1. kept[m] \in Nat /\ RowCount(m) \in Nat
    BY RowCountType DEF SendInv, SendType
  <2>2. RowCount(m) <= kept[m] + IF Pending(m) THEN 0 ELSE 1
    BY DEF SendInv, Calm, RowsAreOwed
  <2> QED
    BY <2>1, <2>2 DEF RowCount
<1> QED
  BY <1>1, BothHold, PTL

(* However many recordings are begun on however many visits, a microphone  *)
(* that is on is shown and can be stopped, but for the two cases MicIsShown *)
(* names (useVoiceInput.ts).                                               *)
THEOREM MicrophoneIsShown == Spec => []MicIsShown
<1>1. VoiceInv => MicIsShown
  BY DEF VoiceInv, MicIsShown, NoneLeftBehind, OneTake, Active, Told, OnScreen
<1> QED
  BY <1>1, BothHold, PTL
=============================================================================
