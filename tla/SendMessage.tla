---------------------------- MODULE SendMessage ----------------------------
(***************************************************************************)
(* Sending from the mobile chat screen (useSendMessage.ts, chat.tsx): the  *)
(* memory is recalled, a bubble shown, the answer inferred on the device   *)
(* and the user's turn stored on the server; network errors of the last    *)
(* two are tried again, from the recall on.  The screen's conversation may *)
(* change while a send runs with the one it was called with.  External:    *)
(* the offline exchange of @nself/graphql-client, which replays mutations  *)
(* that failed (services/chat.ts), and the bridge insertMemory calls.      *)
(***************************************************************************)
EXTENDS Integers, FiniteSets

CONSTANTS
    Messages,     \* what the user can send, each once
    Calls,        \* bound: the calls of _doSend that run at once
    MaxAttempts,  \* MAX_NETWORK_RETRIES
    MaxPresses    \* bound: how often Retry is pressed

VARIABLES
    status,     \* the hook's SendStatus
    error,      \* an error banner is shown, with its Retry
    sends,      \* the calls of _doSend, see NoSend
    last,       \* lastTextRef and lastTempIdRef: what Retry sends
    bubble,     \* bubble[m]: the state of the message in the list, or none
    conv,       \* the screen's conversation; None until there is one
    convs,      \* conversation ids generated so far
    stored,     \* the rows of the server: message, conversation and row id
    queue,      \* rows the offline exchange has still to replay
    kept,       \* history: kept[m]: attempts taken for failed whose row is,
                \* or will be, stored
    crossed,    \* history: a send was begun while a call that had thrown slept
    presses

sendVars == <<status, error, sends, last, bubble, conv, convs, stored, queue, kept, crossed, presses>>

None == 0
NoMessage == "no message"

(* closure: the conversationId the call sees; active: the one it uses *)
NoSend == [pc |-> "idle", message |-> NoMessage, attempt |-> 1, closure |-> None, active |-> None]

SendInit ==
    /\ status = "idle" /\ error = FALSE
    /\ sends = [c \in Calls |-> NoSend] /\ last = NoMessage
    /\ bubble = [m \in Messages |-> "none"]
    /\ conv = None /\ convs = 0 /\ stored = {} /\ queue = {}
    /\ kept = [m \in Messages |-> 0] /\ crossed = FALSE /\ presses = 0

isSending == status \in {"recalling", "sending"}

Running(c) == sends[c].pc # "idle"

-----------------------------------------------------------------------------
(* _doSend, up to the recall *)
Attempt(c, m, attempt, closure) ==
    /\ sends' = [sends EXCEPT ![c] =
         [pc |-> "recall", message |-> m, attempt |-> attempt, closure |-> closure, active |-> None]]
    /\ error' = FALSE /\ status' = "recalling"

(* sendMessage, from the input bar.  It looks at the status alone, which    *)
(* says sent while a call that has thrown after that sleeps (Thrown).      *)
Send(c, m) ==
    /\ ~isSending /\ bubble[m] = "none" /\ ~Running(c)
    /\ Attempt(c, m, 1, conv)
    /\ last' = m
    /\ crossed' = (crossed \/ (status = "sent" /\ \E d \in Calls : Running(d)))
    /\ UNCHANGED <<bubble, conv, convs, stored, queue, kept, presses>>

(* mutated (as are the forms so marked below: slips the code could well    *)
(* contain, each breaks a property, the specification uses none): the      *)
(* banner stays                                                            *)
RetryAnytime(c) ==
    /\ ~isSending /\ last # NoMessage /\ ~Running(c) /\ presses < MaxPresses
    /\ Attempt(c, last, 1, conv)
    /\ presses' = presses + 1
    /\ UNCHANGED <<last, bubble, conv, convs, stored, queue, kept, crossed>>

(* retryLast, from the banner; what was sent last need not be what failed. *)
Retry(c) ==
    /\ error /\ last # NoMessage /\ ~Running(c) /\ presses < MaxPresses
    /\ Attempt(c, last, 1, conv)
    /\ presses' = presses + 1
    /\ UNCHANGED <<last, bubble, conv, convs, stored, queue, kept, crossed>>

(* mutated: the id of the running conversation is not looked at *)
EstablishAnew(c) ==
    /\ sends' = [sends EXCEPT ![c].pc = "infer", ![c].active = convs + 1]
    /\ convs' = convs + 1
    /\ conv' = IF sends[c].closure = None THEN convs + 1 ELSE conv

(* The conversation: that of the call, or a new one, told to the screen.   *)
Establish(c) ==
    IF sends[c].closure = None
    THEN /\ sends' = [sends EXCEPT ![c].pc = "infer", ![c].active = convs + 1]
         /\ convs' = convs + 1 /\ conv' = convs + 1
    ELSE /\ sends' = [sends EXCEPT ![c].pc = "infer", ![c].active = sends[c].closure]
         /\ UNCHANGED <<convs, conv>>

(* The recall is over, with or without a context.  A retry of the user     *)
(* comes by here with attempt 1, so its bubble is put in again.            *)
Recalled(c) ==
    /\ sends[c].pc = "recall"
    /\ bubble' = IF sends[c].attempt = 1 THEN [bubble EXCEPT ![sends[c].message] = "sending"] ELSE bubble
    /\ Establish(c)
    /\ status' = "sending"
    /\ UNCHANGED <<error, last, stored, queue, kept, crossed, presses>>

Inferred(c) ==
    /\ sends[c].pc = "infer"
    /\ sends' = [sends EXCEPT ![c].pc = "persist"]
    /\ UNCHANGED <<status, error, last, bubble, conv, convs, stored, queue, kept, crossed, presses>>

-----------------------------------------------------------------------------
RowsOf(rows, m) == {row \in rows : row.message = m}

(* The row of an attempt, under an id of its own.                          *)
Row(c) ==
    LET m == sends[c].message
    IN  [message |-> m, conv |-> sends[c].active, id |-> Cardinality(RowsOf(stored \cup queue, m))]

(* An attempt is taken for failed though the server has its row or will.   *)
Keep(c) == kept' = [kept EXCEPT ![sends[c].message] = @ + 1]

(* The turn is stored, then the two memory inserts are set off.            *)
Persisted(c) ==
    /\ sends[c].pc = "persist"
    /\ stored' = stored \cup {Row(c)}
    /\ sends' = [sends EXCEPT ![c] = NoSend]
    /\ bubble' = [bubble EXCEPT ![sends[c].message] = "sent"]
    /\ status' = "sent"
    /\ UNCHANGED <<error, last, conv, convs, queue, kept, crossed, presses>>

(* The catch block: only what is taken for an error of the network is      *)
(* tried again; the bubble and the status are b and s by then.             *)
Catch(c, network, b, s) ==
    IF network /\ sends[c].attempt < MaxAttempts
    THEN /\ sends' = [sends EXCEPT ![c].pc = "sleep"]
         /\ bubble' = b /\ status' = s /\ UNCHANGED error
    ELSE /\ sends' = [sends EXCEPT ![c] = NoSend]
         /\ bubble' = [b EXCEPT ![sends[c].message] = "failed"]
         /\ error' = TRUE /\ status' = "failed"

(* The turn is stored and marked sent, and then insertMemory throws where  *)
(* it stands, the bridge being gone: the same catch block.                 *)
Thrown(c) ==
    /\ sends[c].pc = "persist"
    /\ stored' = stored \cup {Row(c)} /\ Keep(c)
    /\ \E network \in BOOLEAN :
         Catch(c, network, [bubble EXCEPT ![sends[c].message] = "sent"], "sent")
    /\ UNCHANGED <<last, conv, convs, queue, crossed, presses>>

InferenceFails(c) ==
    /\ sends[c].pc = "infer"
    /\ \E network \in BOOLEAN : Catch(c, network, bubble, status)
    /\ UNCHANGED <<last, conv, convs, stored, queue, kept, crossed, presses>>

(* An error of the mutation is one of the network, but for one that speaks *)
(* of a rate limit.  The turn may have been stored all the same, or wait   *)
(* in the offline exchange.                                                *)
PersistFails(c) ==
    /\ sends[c].pc = "persist"
    /\ \/ UNCHANGED <<stored, queue, kept>>
       \/ stored' = stored \cup {Row(c)} /\ Keep(c) /\ UNCHANGED queue
       \/ queue' = queue \cup {Row(c)} /\ Keep(c) /\ UNCHANGED stored
    /\ \E network \in BOOLEAN : Catch(c, network, bubble, status)
    /\ UNCHANGED <<last, conv, convs, crossed, presses>>

(* Back online, the offline exchange sends a mutation it has queued.       *)
Replay ==
    /\ \E row \in queue : stored' = stored \cup {row} /\ queue' = queue \ {row}
    /\ UNCHANGED <<status, error, sends, last, bubble, conv, convs, kept, crossed, presses>>

(* The next attempt runs with the values of the first.                     *)
Wake(c) ==
    /\ sends[c].pc = "sleep"
    /\ Attempt(c, sends[c].message, sends[c].attempt + 1, sends[c].closure)
    /\ UNCHANGED <<last, bubble, conv, convs, stored, queue, kept, crossed, presses>>

SendNext ==
    \/ Replay
    \/ \E c \in Calls :
         \/ \E m \in Messages : Send(c, m)
         \/ Retry(c) \/ Recalled(c) \/ Inferred(c) \/ Persisted(c) \/ Thrown(c)
         \/ InferenceFails(c) \/ PersistFails(c) \/ Wake(c)
=============================================================================
