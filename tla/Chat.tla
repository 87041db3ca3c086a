-------------------------------- MODULE Chat --------------------------------
(***************************************************************************)
(* Chatting in the web app (InputBar.tsx, chat-store.ts, MessageList.tsx). *)
(* The flag isStreaming and the text streamed so far are the store's, one  *)
(* for all pages; the controller that Stop aborts is a ref of the input    *)
(* bar, which the page of a new conversation replaces by one of its own.   *)
(* A reader sees that it was aborted when its pending read comes back.     *)
(***************************************************************************)
EXTENDS Integers

CONSTANTS
    MaxSends,   \* bound: messages sent
    MaxBars     \* bound: input bars ever mounted

ASSUME ChatBounds == MaxSends \in Nat /\ MaxBars \in Nat \ {0}

VARIABLES
    streaming,      \* isStreaming
    streamed,       \* streamingContent: the sends whose text is in it
    bar,            \* the input bar on the screen
    convOf,         \* convOf[b]: activeConvIdRef of bar b, Nil if new
    abortOf,        \* abortOf[b]: the send whose controller b's abortRef has
    sends,          \* sends[i]: the i-th call of handleSend, see NoSend
    newest,         \* the last send that began to stream
    convs,          \* conversations the server has
    crowded         \* history: a send began before an earlier one had ended

chatVars == <<streaming, streamed, bar, convOf, abortOf, sends, newest, convs, crowded>>

Sends == 1 .. MaxSends
Bars == 1 .. MaxBars
Nil == 0
NoSend == [pc |-> "none", bar |-> Nil, aborted |-> FALSE]

ChInit ==
    /\ streaming = FALSE /\ streamed = {} /\ bar = 1
    /\ convOf = [b \in Bars |-> Nil] /\ abortOf = [b \in Bars |-> Nil]
    /\ sends = [i \in Sends |-> NoSend] /\ newest = Nil
    /\ convs = 0 /\ crowded = FALSE

InFlight(i) == sends[i].pc \in {"request", "read"}

(* mutated (as are the forms so marked below: slips the code could well    *)
(* contain, each breaks a property, the specification uses none): the      *)
(* store keeps the text                                                    *)
KeepStreamingContent == streamed' = streamed

clearStreamingContent == streamed' = {}

(* mutated: the controller is made, but not kept *)
BeginUnabortable(i, b) ==
    /\ sends' = [sends EXCEPT ![i] = [pc |-> "request", bar |-> b, aborted |-> FALSE]]
    /\ clearStreamingContent /\ streaming' = TRUE
    /\ newest' = i /\ UNCHANGED abortOf
    /\ crowded' = (crowded \/ \E j \in Sends \ {i} : InFlight(j))

(* The second half of handleSend, up to its request.                       *)
Begin(i, b) ==
    /\ sends' = [sends EXCEPT ![i] = [pc |-> "request", bar |-> b, aborted |-> FALSE]]
    /\ clearStreamingContent /\ streaming' = TRUE
    /\ newest' = i /\ abortOf' = [abortOf EXCEPT ![b] = i]
    /\ crowded' = (crowded \/ \E j \in Sends \ {i} : InFlight(j))

IsNext(i) == sends[i].pc = "none" /\ \A j \in 1 .. i - 1 : sends[j].pc # "none"

(* handleSend: into the conversation, or first for a new one; the bar is    *)
(* not disabled while that is asked for.                                   *)
Send ==
    /\ ~streaming
    /\ \E i \in Sends :
          /\ IsNext(i)
          /\ IF convOf[bar] # Nil
             THEN Begin(i, bar) /\ UNCHANGED <<convOf, convs, bar>>
             ELSE /\ sends' = [sends EXCEPT ![i] = [NoSend EXCEPT !.pc = "create", !.bar = bar]]
                  /\ UNCHANGED <<streaming, streamed, bar, convOf, abortOf, newest, convs, crowded>>

(* The conversation is there, its page is asked for, the message sent.     *)
Created(i) ==
    /\ sends[i].pc = "create"
    /\ convs' = convs + 1 /\ convOf' = [convOf EXCEPT ![sends[i].bar] = convs + 1]
    /\ Begin(i, sends[i].bar)
    /\ UNCHANGED bar

CreateFails(i) ==
    /\ sends[i].pc = "create"
    /\ sends' = [sends EXCEPT ![i].pc = "ended"]
    /\ UNCHANGED <<streaming, streamed, bar, convOf, abortOf, newest, convs, crowded>>

(* The finally clause.                                                     *)
Finally(i) ==
    /\ sends' = [sends EXCEPT ![i].pc = "ended"]
    /\ streaming' = FALSE /\ clearStreamingContent
    /\ abortOf' = [abortOf EXCEPT ![sends[i].bar] = Nil]

(* The stream is there; an aborted send leaves its loop before a read.     *)
Answered(i) ==
    /\ sends[i].pc = "request" /\ ~sends[i].aborted
    /\ sends' = [sends EXCEPT ![i].pc = "read"]
    /\ UNCHANGED <<streaming, streamed, bar, convOf, abortOf, newest, convs, crowded>>

(* A read brings text; after Stop it is still appended, then the loop ends. *)
Delta(i) ==
    /\ sends[i].pc = "read"
    /\ IF sends[i].aborted THEN Finally(i)
       ELSE streamed' = streamed \cup {i} /\ UNCHANGED <<streaming, abortOf, sends>>
    /\ UNCHANGED <<bar, convOf, newest, convs, crowded>>

(* It failed, or the stream ends or breaks.                                *)
Ends(i) ==
    /\ InFlight(i) /\ Finally(i)
    /\ UNCHANGED <<bar, convOf, newest, convs, crowded>>

(* handleAbort, from the bar on the screen *)
Stop ==
    /\ streaming /\ streaming' = FALSE
    /\ sends' = IF abortOf[bar] = Nil THEN sends
                ELSE [sends EXCEPT ![abortOf[bar]].aborted = TRUE]
    /\ UNCHANGED <<streamed, bar, convOf, abortOf, newest, convs, crowded>>

(* To the page of a conversation, the new one or another, or home.         *)
GoTo ==
    /\ bar < MaxBars /\ bar' = bar + 1
    /\ \E c \in 0 .. convs : convOf' = [convOf EXCEPT ![bar + 1] = c]
    /\ UNCHANGED <<streaming, streamed, abortOf, sends, newest, convs, crowded>>

ChStep(i) == Created(i) \/ CreateFails(i) \/ Answered(i) \/ Delta(i) \/ Ends(i)
ChNext == Send \/ Stop \/ GoTo \/ \E i \in Sends : ChStep(i)
=============================================================================
