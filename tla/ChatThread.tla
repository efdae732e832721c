----------------------------- MODULE ChatThread -----------------------------
(***************************************************************************)
(* The chat page (ChatPage.tsx): one thread is shown, and a run answers    *)
(* its last message: it asks the model, runs the tools the model calls,    *)
(* batch by batch, and asks again. A run works on a copy of the thread and *)
(* commits it, unless the thread was left since. Threads are kept in the   *)
(* browser's store (useChatHistory.ts).                                    *)
(***************************************************************************)
EXTENDS Page, SequencesExt

CONSTANTS
    Threads,        \* thread ids
    CallLists,      \* the tools one answer calls: sequences of "read", "wallet" and "ask"
    MaxToolLoops,   \* MAX_TOOL_LOOPS
    MaxQueue,       \* bound: messages that wait for a run to end
    MaxMessages     \* bound: messages in a thread before a run

ASSUME ChatAssumption ==
    /\ Threads # {}
    /\ CallLists \subseteq Seq({"read", "wallet", "ask"}) \ {<<>>}
    /\ MaxToolLoops \in Nat \ {0} /\ MaxQueue \in Nat

VARIABLES
    threads,        \* the stored messages of each thread
    removed,        \* what the last deletion of each thread can put back
    thread, shown,  \* the thread on the page and its messages
    queue,          \* number of messages that wait
    failed,         \* an error of the stream is on the page, with a Retry
    run,            \* the run of runAgent under way
    left            \* history: threads left, rewritten or lost while tools ran

chatVars == <<threads, removed, thread, shown, queue, failed, run, left>>
storeVars == <<threads, thread, shown>>

Message(role, by) == [role |-> role, by |-> by, tools |-> 0]
Calls(tools, by) == [Message("calls", by) EXCEPT !.tools = Len(tools)]
NoRun == [pc |-> "idle", thread |-> None, stale |-> FALSE, aborted |-> FALSE,
          list |-> <<>>, loop |-> 0, batches |-> <<>>, asked |-> FALSE]

\* isStreamingRef: a stale run keeps the page busy until it has ended.
Streaming == run # NoRun

\* Mutant: the calls collected before a new batch are dropped.
BatchedDropping(batches, tool) ==
    IF tool # "wallet" /\ batches # <<>> /\ Last(batches)[1] # "wallet"
    THEN Append(Front(batches), Append(Last(batches), tool))
    ELSE <<<<tool>>>>

\* Calls that need the wallet run alone, the others between them at once.
Batched(batches, tool) ==
    IF tool # "wallet" /\ batches # <<>> /\ Last(batches)[1] # "wallet"
    THEN Append(Front(batches), Append(Last(batches), tool))
    ELSE Append(batches, <<tool>>)

GroupParallelTools(tools) ==
    LET grouped[n \in 0..Len(tools)] ==
            IF n = 0 THEN <<>> ELSE Batched(grouped[n - 1], tools[n])
    IN  grouped[Len(tools)]

(***************************************************************************)
(* What is shown and what is stored                                        *)
(***************************************************************************)
\* The effect of a change of the messages or the thread; an empty page stores nothing.
Shows(id, list) ==
    /\ thread' = id /\ shown' = list
    /\ threads' = IF list = <<>> THEN threads ELSE [threads EXCEPT ![id] = list]

\* Mutant: a run does not ask whether its thread was left.
NeverStale == FALSE
IsStale == run.stale
Commits(list) == IF IsStale THEN UNCHANGED storeVars ELSE Shows(thread, list)

(***************************************************************************)
(* A run                                                                   *)
(***************************************************************************)
RunAgent(before) ==
    LET list == Append(before, Message("user", thread)) IN
    /\ ~Streaming /\ Len(before) < MaxMessages
    /\ run' = [NoRun EXCEPT !.pc = "ask", !.thread = thread, !.list = list, !.loop = 1]
    /\ failed' = FALSE
    /\ Shows(thread, list)
    /\ UNCHANGED <<removed, left>>

Ends(list) == run' = NoRun /\ Commits(list)

\* The last turn is followed by a notice, whatever it ended with.
TurnLimit(list) ==
    IF run.loop >= MaxToolLoops /\ ~IsStale
    THEN Append(list, Message("error", run.thread))
    ELSE list

Answers ==
    /\ run.pc = "ask"
    /\ Ends(TurnLimit(Append(run.list, Message("answer", run.thread))))
    /\ UNCHANGED <<removed, queue, failed, left>>

\* The stream breaks off or is empty.
StreamFails ==
    /\ run.pc = "ask"
    /\ Ends(TurnLimit(run.list))
    /\ failed' = (failed \/ ~IsStale)
    /\ UNCHANGED <<removed, queue, left>>

Throws ==
    /\ run.pc = "ask"
    /\ Ends(Append(run.list, Message("error", run.thread)))
    /\ UNCHANGED <<removed, queue, failed, left>>

\* A stop drops everything after the user's message.
Trim(list) == SubSeq(list, 1, SelectLastInSeq(list, LAMBDA m : m.role = "user"))

Aborts ==
    /\ run.pc = "ask" /\ run.aborted
    /\ Ends(Trim(run.list))
    /\ UNCHANGED <<removed, queue, failed, left>>

\* What was read before an abort is still acted on, its tools included.
CallsTools(tools) ==
    LET list == Append(run.list, Calls(tools, run.thread)) IN
    /\ run.pc = "ask"
    /\ run' = [run EXCEPT !.pc = "tools", !.list = list, !.batches = GroupParallelTools(tools)]
    /\ Commits(list)
    /\ UNCHANGED <<removed, queue, failed, left>>

\* The results of a batch are kept until the last batch is in, and only then committed.
BatchDone ==
    LET batch == Head(run.batches)
        asked == run.asked \/ Contains(batch, "ask")
        list == run.list \o [i \in 1..Len(batch) |-> Message("tool", run.thread)]
    IN  /\ run.pc = "tools"
        /\ \/ IsStale /\ Ends(list)
           \/ /\ ~IsStale /\ Len(run.batches) > 1
              /\ run' = [run EXCEPT !.batches = Tail(@), !.list = list, !.asked = asked]
              /\ UNCHANGED storeVars
           \/ /\ ~IsStale /\ Len(run.batches) = 1
              /\ IF asked \/ run.loop >= MaxToolLoops THEN Ends(TurnLimit(list))
                 ELSE IF run.aborted THEN Ends(Trim(list))
                 ELSE /\ run' = [run EXCEPT !.pc = "ask", !.loop = @ + 1, !.list = list,
                                            !.batches = <<>>]
                      /\ Commits(list)
        /\ UNCHANGED <<removed, queue, failed, left>>

(***************************************************************************)
(* The user                                                                *)
(***************************************************************************)
LeavesTools == left' = IF run.pc = "tools" THEN left \union {run.thread} ELSE left

\* The run's epoch is over and its request aborted.
NewEpoch ==
    /\ run' = IF Streaming THEN [run EXCEPT !.aborted = TRUE, !.stale = TRUE] ELSE run
    /\ LeavesTools

CancelStream ==
    /\ Streaming /\ run' = [run EXCEPT !.aborted = TRUE]
    /\ UNCHANGED <<threads, removed, thread, shown, queue, failed, left>>

\* A message is sent at once, or waits for the run to end.
SendMessage ==
    \/ queue = 0 /\ RunAgent(shown) /\ UNCHANGED queue
    \/ /\ Streaming /\ queue < MaxQueue /\ queue' = queue + 1
       /\ UNCHANGED <<threads, removed, thread, shown, failed, run, left>>

ProcessQueue == queue > 0 /\ queue' = queue - 1 /\ RunAgent(shown)

\* An answer is taken back and its question asked once more.
Regenerate ==
    /\ shown # <<>> /\ Last(shown).role \in {"answer", "calls"}
    /\ RunAgent(Front(shown)) /\ UNCHANGED queue

RetryStream ==
    /\ failed /\ shown # <<>>
    /\ RunAgent(shown) /\ UNCHANGED queue

\* An earlier message goes back to the input with all that follows it dropped.
EditMessage(i) ==
    /\ i < Len(shown) /\ shown[i].role = "user"
    /\ NewEpoch /\ Shows(thread, SubSeq(shown, 1, i - 1))
    /\ UNCHANGED <<removed, queue, failed>>

Unused(id) ==
    /\ threads[id] = <<>> /\ removed[id] = <<>>
    /\ id # thread /\ run.thread # id

StartNewChat ==
    /\ \E id \in Threads : Unused(id) /\ Shows(id, <<>>)
    /\ NewEpoch /\ queue' = 0
    /\ UNCHANGED <<removed, failed>>

\* The queue is not emptied.
OpenThread(id) ==
    /\ threads[id] # <<>>
    /\ NewEpoch /\ Shows(id, threads[id])
    /\ UNCHANGED <<removed, queue, failed>>

\* Deleting the thread on the page opens another one or a new one.
DeleteThread(id) ==
    LET others == {other \in Threads \ {id} : threads[other] # <<>>} IN
    /\ threads[id] # <<>>
    /\ removed' = [removed EXCEPT ![id] = threads[id]]
    /\ threads' = [threads EXCEPT ![id] = <<>>]
    /\ \/ id # thread /\ UNCHANGED <<thread, shown, queue, run, left>>
       \/ /\ id = thread /\ NewEpoch
          /\ \/ /\ thread' \in others /\ shown' = threads[thread']
                /\ UNCHANGED queue
             \/ /\ others = {} /\ \E next \in Threads : Unused(next) /\ thread' = next
                /\ shown' = <<>> /\ queue' = 0
    /\ UNCHANGED failed

UndoDelete(id) ==
    /\ removed[id] # <<>>
    /\ threads' = [threads EXCEPT ![id] = removed[id]]
    /\ removed' = [removed EXCEPT ![id] = <<>>]
    /\ UNCHANGED <<thread, shown, queue, failed, run, left>>

\* A page that comes back shows what was stored of it, an empty one a new thread.  The run
\* of a page that was left goes on, but commits to nothing; a reload ends it.
RemountChat(reload) ==
    /\ run' = NoRun /\ LeavesTools
    /\ queue' = 0 /\ failed' = FALSE
    /\ removed' = IF reload THEN [id \in Threads |-> <<>>] ELSE removed
    /\ UNCHANGED <<threads, shown>>
    /\ \/ shown # <<>> /\ UNCHANGED thread
       \/ shown = <<>> /\ \E id \in Threads : Unused(id) /\ thread' = id

ChatInit ==
    /\ threads = [id \in Threads |-> <<>>] /\ removed = threads
    /\ thread = CHOOSE id \in Threads : TRUE
    /\ shown = <<>>
    /\ queue = 0 /\ failed = FALSE
    /\ run = NoRun /\ left = {}

ChatStep ==
    \/ SendMessage \/ ProcessQueue \/ Regenerate \/ RetryStream \/ CancelStream
    \/ \E i \in DOMAIN shown : EditMessage(i)
    \/ StartNewChat
    \/ \E id \in Threads : OpenThread(id) \/ DeleteThread(id) \/ UndoDelete(id)
    \/ \E reload \in BOOLEAN : RemountChat(reload)
    \/ Answers \/ StreamFails \/ Throws \/ Aborts \/ BatchDone
    \/ \E tools \in CallLists : CallsTools(tools)

(***************************************************************************)
(* Properties                                                              *)
(***************************************************************************)
ChatTypeOK ==
    LET Messages == Seq([role : {"user", "calls", "tool", "answer", "error"}, by : Threads,
                         tools : Nat])
    IN  /\ threads \in [Threads -> Messages] /\ removed \in [Threads -> Messages]
        /\ thread \in Threads /\ shown \in Messages
        /\ queue \in 0..MaxQueue /\ failed \in BOOLEAN /\ left \subseteq Threads
        /\ run.pc \in {"idle", "ask", "tools"} /\ run.thread \in Threads \union {None}
        /\ run.list \in Messages /\ run.loop \in 0..MaxToolLoops

\* What a run says never lands in another thread, on the page or in the store, however
\* threads are opened, started, edited and deleted while it streams or runs its tools.
ThreadKeepsItsOwn ==
    /\ \A id \in Threads : \A i \in DOMAIN threads[id] : threads[id][i].by = id
    /\ \A i \in DOMAIN shown : shown[i].by = thread

Answered(list) ==
    \A i \in DOMAIN list :
        \A n \in 1..list[i].tools :
            i + n \in DOMAIN list /\ list[i + n].role = "tool"

\* No thread that a run has finished with is stored with a call that has no result, stopped
\* or not: a model refuses such a history.  Leaving the thread while its tools run is the
\* exception, and the only one.
CallsAnswered == \A id \in Threads \ left : run.thread # id => Answered(threads[id])
=============================================================================
