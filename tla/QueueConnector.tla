--------------------------- MODULE QueueConnector ---------------------------
(***************************************************************************)
(* The connectors of queues and files, KafkaConnector and CsvConnector: a  *)
(* source read in pages over a window of unanswered pages, or as one       *)
(* frame; a target that is deleted, created and written.  No adapter of    *)
(* the repository calls them (the two are commented out), so that the      *)
(* caller, the broker and the file system are the environment.             *)
(***************************************************************************)
EXTENDS Integers, FiniteSets, SequencesExt

CONSTANTS
  Limit,         \* the limit of get_unpredicted_data and get_data
  ProcessCount,  \* its process_count
  MaxEntries,    \* messages, or lines, a source ever holds
  MaxOdd,        \* messages among them that are no value
  MaxReads,      \* reads of one group from one source
  MaxFaults,     \* errors a poll, a parser or a request answers with
  Clients,       \* callers of a target, each with a connector of its own
  MaxCalls,      \* calls each of them makes
  None           \* Python's None

ASSUME WindowAssumption == {Limit, ProcessCount} \subseteq Nat \ {0}
ASSUME CapAssumption == {MaxEntries, MaxOdd, MaxReads, MaxFaults, MaxCalls} \subseteq Nat

(* A message is a value, has no value, or is not JSON (a line: too long).  *)
Entry == {"value", "tombstone", "garbage"}

VARIABLES
  plan,       \* connector, use, and how the source is read
  faults,
  log,        \* the messages the topic ever holds, or the lines of the file
  committed,  \* the group's offset at the broker, None before the first
  first,      \* where the current read began
  position,   \* the offset after the last message polled
  op, pc,     \* the call under way and its place
  start,      \* the row get_data of a file asks for
  data,       \* offsets of the values read into the open page
  total,      \* total_data_count
  sent,       \* transmitted_data_count
  pages,      \* the pages of the current read, in the order they were put
  waiting,    \* pages on data_queue
  answers,    \* result_queue
  answering,  \* does the caller still answer?
  reads,      \* reads begun
  failed,     \* reads that raised
  passedOn,   \* offsets of the values some read handed over
  jumped,     \* offsets "latest" stepped over
  target,     \* "absent", "present", or "doomed": still listed, to be deleted
  doomed,     \* has a deletion ever been asked for?
  calls,      \* calls each client has begun
  cpc,        \* the place of each client
  buffer      \* how many rows its producer has not delivered

readVars      == <<committed, first, position, op, pc, start, data, total, sent, pages>>
windowVars    == <<waiting, answers>>
ghostVars     == <<reads, failed, passedOn, jumped>>
sourceVars    == <<log, readVars, windowVars, answering, ghostVars>>
targetVars    == <<target, doomed, calls, cpc, buffer>>
connectorVars == <<plan, faults, sourceVars, targetVars>>

Kafka == plan.connector = "Kafka"

(* Only consumers of Kafka commit, and each read of a file starts anew.    *)
Plans ==
  [connector : {"Kafka"}, use : {"source"}, auto : BOOLEAN,
   reset : {"earliest", "latest"}, shared : BOOLEAN]
    \cup [connector : {"CSV"}, use : {"source"}, auto : {FALSE},
          reset : {"earliest"}, shared : BOOLEAN]
    \cup [connector : {"Kafka", "CSV"}, use : {"target"}, auto : {FALSE},
          reset : {"earliest"}, shared : {FALSE}]

ConnectorInit ==
  /\ plan \in Plans
  /\ faults = 0
  /\ log \in IF plan.use = "target" THEN {<<>>}
             ELSE {l \in BoundedSeq(IF Kafka THEN Entry ELSE Entry \ {"tombstone"},
                                    MaxEntries) :
                     Cardinality({i \in DOMAIN l : l[i] # "value"}) <= MaxOdd}
  /\ committed = None /\ first = 0 /\ position = 0
  /\ op = "none" /\ pc = "idle" /\ start = 0 /\ data = <<>> /\ total = 0 /\ sent = 0
  /\ pages = <<>>
  /\ waiting = 0 /\ answers = <<>> /\ answering = TRUE
  /\ reads = 0 /\ failed = 0 /\ passedOn = {} /\ jumped = {}
  /\ target \in {"absent", "present"} /\ doomed = FALSE
  /\ calls = [c \in Clients |-> 0]
  /\ cpc = [c \in Clients |-> "ready"]
  /\ buffer = [c \in Clients |-> 0]

-----------------------------------------------------------------------------
(* create_consumer, or open: the old consumer goes, and the broker may or  *)
(* may not have heard of what it polled; a group without an offset starts  *)
(* where auto.offset.reset says, "latest" being wherever the topic ends by *)
(* then.  A file adapter hands the queues of one file on to the next.      *)
Offsets == {committed} \cup (IF plan.auto /\ reads > 0 THEN first .. position ELSE {})

Begins(offset) ==
  IF offset # None THEN {offset}
  ELSE IF plan.reset = "latest" THEN position .. Len(log) ELSE {0}

StartRead(call, offset, begin) ==
  /\ plan.use = "source" /\ pc = "idle" /\ reads < MaxReads
  /\ reads' = reads + 1
  /\ committed' = offset /\ first' = begin /\ position' = begin
  /\ jumped' = IF offset = None THEN jumped \cup 0 .. begin - 1 ELSE jumped
  /\ start' \in IF call = "data" /\ ~Kafka THEN 0 .. Len(log) ELSE {0}
  /\ op' = call /\ pc' = "poll" /\ data' = <<>> /\ total' = 0 /\ sent' = 0 /\ pages' = <<>>
  /\ IF plan.shared THEN UNCHANGED windowVars ELSE waiting' = 0 /\ answers' = <<>>
  /\ UNCHANGED <<plan, faults, log, answering, failed, passedOn, targetVars>>

(* One message of _iter_messages, or one line of the chunk pandas reads:   *)
(* a message without a value is skipped, one that is not JSON raises.      *)
Raise == pc' = "idle" /\ failed' = failed + 1 /\ data' = <<>>

Poll ==
  /\ pc = "poll" /\ position < Len(log)
  /\ CASE log[position + 1] = "value" ->
            /\ data' = Append(data, position) /\ total' = total + 1
            /\ pc' = IF Len(data') >= Limit THEN "full" ELSE "poll"
            /\ UNCHANGED failed
       [] log[position + 1] = "tombstone" -> UNCHANGED <<pc, data, total, failed>>
       [] OTHER -> Raise /\ UNCHANGED total
  /\ position' = position + 1
  /\ UNCHANGED <<plan, faults, log, committed, first, op, start, sent, pages, windowVars,
                 answering, reads, passedOn, jumped, targetVars>>

(* poll returns None after its timeout, because there is no message yet or *)
(* the broker is slow; a file ends where it ends.  The mistake is to leave *)
(* without the open page.                                                  *)
AtEnd == pc = "poll" /\ (Kafka \/ position = Len(log))

PollNoneAndLeave ==
  /\ AtEnd /\ pc' = "idle" /\ data' = <<>>
  /\ UNCHANGED <<plan, faults, log, committed, first, position, op, start, total, sent, pages,
                 windowVars, answering, ghostVars, targetVars>>

PollNone ==
  /\ AtEnd /\ pc' = "rest"
  /\ UNCHANGED <<plan, faults, log, committed, first, position, op, start, data, total, sent, pages,
                 windowVars, answering, ghostVars, targetVars>>

PollError ==
  /\ pc = "poll" /\ faults < MaxFaults
  /\ faults' = faults + 1
  /\ Raise
  /\ UNCHANGED <<plan, log, committed, first, position, op, start, total, sent, pages, windowVars,
                 answering, reads, passedOn, jumped, targetVars>>

(* DataQueueTask.  The rest of a Kafka read is added to total_data_count a *)
(* second time; the mistake is to forget that it was.                      *)
Page(no, from, to) == [Id |-> no, Data |-> data, Start |-> from, End |-> to]
FullPage == Page(Len(pages) + 1, total - Len(data), total)
RestPageOfRest == Page(Len(pages) + 1, total, total)

RestPage ==
  LET sum == IF Kafka THEN total + Len(data) ELSE total
  IN Page(Len(pages) + 1, sum - Len(data), sum)

(* The mistake is a page that is counted and not put.                      *)
PutNothing(p) ==
  /\ pages' = Append(pages, p) /\ passedOn' = passedOn \cup ToSet(p.Data)
  /\ data' = <<>> /\ UNCHANGED waiting

PutPage(p) ==
  /\ pages' = Append(pages, p)
  /\ waiting' = waiting + 1
  /\ passedOn' = passedOn \cup ToSet(p.Data)
  /\ data' = <<>>

WindowOver(n) == n > ProcessCount
WindowFull(n) == n >= ProcessCount

PutAndAwait(p) ==
  /\ PutPage(p)
  /\ sent' = sent + 1
  /\ pc' = IF WindowFull(sent') THEN "await" ELSE "poll"

FullPagePut ==
  /\ op = "unpredicted" /\ pc = "full"
  /\ PutAndAwait(FullPage)
  /\ UNCHANGED <<plan, faults, log, committed, first, position, op, start, total, answers,
                 answering, reads, failed, jumped, targetVars>>

(* The last chunk of a file is a page like the others, and so is the empty *)
(* one that pandas reads first from a file without rows.                   *)
EmptyChunk == op = "unpredicted" /\ ~Kafka /\ data = <<>> /\ pages = <<>>

RestPagePut ==
  /\ op = "unpredicted" /\ pc = "rest" /\ (data # <<>> \/ EmptyChunk)
  /\ IF Kafka THEN PutPage(RestPage) /\ pc' = "idle" /\ UNCHANGED sent ELSE PutAndAwait(RestPage)
  /\ UNCHANGED <<plan, faults, log, committed, first, position, op, start, total, answers,
                 answering, reads, failed, jumped, targetVars>>

EndRead ==
  /\ pc = "rest" /\ data = <<>> /\ ~EmptyChunk
  /\ pc' = "idle"
  /\ UNCHANGED <<plan, faults, log, committed, first, position, op, start, data, total, sent, pages,
                 windowVars, answering, ghostVars, targetVars>>

(* get_data returns its values as one frame; from a file, the chunk that   *)
(* holds row start, and None if no chunk does.  An empty frame is none.    *)
SkipChunk ==
  /\ op = "data" /\ pc \in {"full", "rest"} /\ data # <<>>
  /\ ~Kafka /\ start >= position
  /\ first' = position /\ data' = <<>>
  /\ pc' = IF pc = "full" THEN "poll" ELSE pc
  /\ UNCHANGED <<plan, faults, log, committed, position, op, start, total, sent, pages, windowVars,
                 answering, ghostVars, targetVars>>

ReturnFrame ==
  /\ op = "data" /\ pc \in {"full", "rest"} /\ data # <<>>
  /\ Kafka \/ start < position
  /\ pages' = <<Page(None, None, None)>>
  /\ passedOn' = passedOn \cup ToSet(data)
  /\ pc' = "idle" /\ data' = <<>>
  /\ UNCHANGED <<plan, faults, log, committed, first, position, op, start, total, sent,
                 windowVars, answering, reads, failed, jumped, targetVars>>

(* result_queue.get(): a refusal ends the read.                            *)
Await ==
  /\ pc = "await" /\ answers # <<>>
  /\ answers' = Tail(answers)
  /\ IF Head(answers) THEN pc' = "poll" /\ sent' = sent - 1 ELSE pc' = "idle" /\ UNCHANGED sent
  /\ UNCHANGED <<plan, faults, log, committed, first, position, op, start, data, total, pages,
                 waiting, answering, ghostVars, targetVars>>

(* The caller takes pages and answers them, until it dies.                 *)
Answer(yes) ==
  /\ answering /\ waiting > 0
  /\ waiting' = waiting - 1 /\ answers' = Append(answers, yes)
  /\ UNCHANGED <<plan, faults, log, readVars, answering, ghostVars, targetVars>>

CallerDies ==
  /\ answering /\ pc # "idle" /\ faults < MaxFaults
  /\ answering' = FALSE /\ faults' = faults + 1
  /\ UNCHANGED <<plan, log, readVars, windowVars, ghostVars, targetVars>>

-----------------------------------------------------------------------------
(* A target: create_topic, delete_topic and write_data, or recreate_file,  *)
(* delete_file and write_data.  topic_exists and os.path.exists are asked  *)
(* before the request, and the target may change in between.               *)
Go(c, place) == cpc' = [cpc EXCEPT ![c] = place]

(* The mistake is to swallow every error.                                  *)
RefusalSwallowed(c) == faults < MaxFaults /\ faults' = faults + 1 /\ Go(c, "created")
Refused(c) == faults < MaxFaults /\ faults' = faults + 1 /\ Go(c, "raised")

Call(c) ==
  /\ plan.use = "target" /\ cpc[c] \in {"ready", "created", "deleted", "written", "raised"}
  /\ calls[c] < MaxCalls
  /\ calls' = [calls EXCEPT ![c] = @ + 1]

Begin(c) ==
  /\ Call(c)
  /\ \/ target = "absent" /\ Go(c, "creating")
     \/ target # "absent" /\ Go(c, IF Kafka THEN "created" ELSE "recreating")
     \/ target = "absent" /\ Go(c, "deleted")
     \/ target # "absent" /\ Go(c, "deleting")
     \/ Go(c, "writing")
  /\ UNCHANGED <<plan, faults, sourceVars, target, doomed, buffer>>

(* list_topics may not be answered in its ten seconds.                     *)
BeginFails(c) ==
  /\ Kafka /\ Call(c)
  /\ Refused(c)
  /\ UNCHANGED <<plan, sourceVars, target, doomed, buffer>>

(* create_topics: "already exists" is swallowed, other errors are not; a   *)
(* topic that is being deleted still exists.  open(..., 'w') makes a file. *)
Create(c) ==
  /\ cpc[c] = "creating"
  /\ \/ /\ Go(c, "created")
        /\ target' = IF target = "absent" THEN "present" ELSE target
        /\ UNCHANGED faults
     \/ Refused(c) /\ UNCHANGED target
  /\ UNCHANGED <<plan, sourceVars, doomed, calls, buffer>>

(* delete_topics returns its futures unread: what becomes of the request   *)
(* is not known to the caller.  os.remove deletes, or raises if another    *)
(* client was faster.                                                      *)
Delete(c) ==
  /\ cpc[c] \in {"deleting", "recreating"}
  /\ IF Kafka
     THEN /\ Go(c, "deleted")
          /\ \/ target = "present" /\ target' = "doomed" /\ doomed' = TRUE
             \/ UNCHANGED <<target, doomed>>
     ELSE /\ Go(c, CASE target = "absent" -> "raised"
                     [] cpc[c] = "recreating" -> "creating"
                     [] OTHER -> "deleted")
          /\ target' = "absent" /\ doomed' = TRUE
  /\ UNCHANGED <<plan, faults, sourceVars, calls, buffer>>

(* The broker deletes the topic when it gets to it.                        *)
Vanish ==
  /\ target = "doomed"
  /\ target' = "absent"
  /\ UNCHANGED <<plan, faults, sourceVars, doomed, calls, cpc, buffer>>

(* write_data: two rows are produced to the producer's buffer and flush    *)
(* waits until each is delivered or given up, which no callback hears of;  *)
(* produce may find the buffer full.  A file is appended to at once, and   *)
(* is made if there is none.                                               *)
Produce(c) ==
  /\ cpc[c] = "writing"
  /\ IF Kafka
     THEN /\ \/ buffer' = [buffer EXCEPT ![c] = @ + 2] /\ Go(c, "flushing") /\ UNCHANGED faults
             \/ buffer' = [buffer EXCEPT ![c] = @ + 1] /\ Refused(c)
          /\ UNCHANGED target
     ELSE /\ \/ target' = "present" /\ Go(c, "written") /\ UNCHANGED faults
             \/ Refused(c) /\ UNCHANGED target
          /\ UNCHANGED buffer
  /\ UNCHANGED <<plan, sourceVars, doomed, calls>>

Deliver(c) ==
  /\ buffer[c] > 0
  /\ buffer' = [buffer EXCEPT ![c] = @ - 1]
  /\ UNCHANGED <<plan, faults, sourceVars, target, doomed, calls, cpc>>

Flush(c) ==
  /\ cpc[c] = "flushing" /\ buffer[c] = 0
  /\ Go(c, "written")
  /\ UNCHANGED <<plan, faults, sourceVars, target, doomed, calls, buffer>>

-----------------------------------------------------------------------------
Reader ==
  \/ Poll \/ PollNone \/ FullPagePut \/ RestPagePut \/ EndRead
  \/ SkipChunk \/ ReturnFrame \/ Await

ConnectorNext ==
  \/ \E call \in {"unpredicted", "data"}, offset \in Offsets :
       \E begin \in Begins(offset) : StartRead(call, offset, begin)
  \/ Reader \/ PollError
  \/ \E yes \in BOOLEAN : Answer(yes)
  \/ CallerDies
  \/ \E c \in Clients :
       Begin(c) \/ BeginFails(c) \/ Create(c) \/ Delete(c) \/ Produce(c) \/ Deliver(c) \/ Flush(c)
  \/ Vanish

(* The reading thread goes on, and a caller that lives answers.            *)
ConnectorSpec ==
  /\ ConnectorInit /\ [][ConnectorNext]_connectorVars
  /\ WF_connectorVars(Reader)
  /\ WF_connectorVars(\E yes \in BOOLEAN : Answer(yes))

-----------------------------------------------------------------------------
(* The offsets of the values a read polled and has put or holds, and how  *)
(* pages follow one another.                                               *)
Polled == {o \in first .. position - 1 : log[o + 1] = "value"}
InPages == UNION {ToSet(pages[i].Data) : i \in DOMAIN pages}
HandedOver == InPages \cup ToSet(data)

Ascends(s) == \A i, j \in DOMAIN s : i < j => s[i] < s[j]
Below(s, t) == \A a \in ToSet(s), b \in ToSet(t) : a < b

InOrder ==
  /\ Ascends(data)
  /\ \A i \in DOMAIN pages : Ascends(pages[i].Data) /\ Below(pages[i].Data, data)
  /\ \A i, j \in DOMAIN pages : i < j => Below(pages[i].Data, pages[j].Data)

EndBefore(i) == IF i = 1 THEN 0 ELSE pages[i - 1].End

RangeHolds(i) ==
  LET p == pages[i]
  IN /\ p.Id = i /\ Len(p.Data) <= Limit
     /\ p.Data = <<>> => ~Kafka /\ log = <<>> /\ Len(pages) = 1
     /\ p.End - p.Start = Len(p.Data)
     /\ p.Start = EndBefore(i) \/ (Kafka /\ i = Len(pages) /\ Len(p.Data) < Limit
                                     /\ p.Start = EndBefore(i) + Len(p.Data))

(* A read hands over the values it polled, each once and in their order,   *)
(* in pages numbered from 1, none longer than Limit, whose Start and End   *)
(* span as many rows as the page holds and never overlap.  Only a file     *)
(* without rows makes an empty page, and no other beside it; only the rest *)
(* of a Kafka read leaves a gap before its range, as wide as itself.  The  *)
(* frame of a file holds the row that was asked for.                       *)
PagesFaithful ==
  op # "none" =>
    /\ InOrder
    /\ IF failed > 0 THEN HandedOver \subseteq Polled ELSE HandedOver = Polled
    /\ op = "data" /\ ~Kafka /\ pages # <<>> => start \in HandedOver
    /\ op = "unpredicted" => \A i \in DOMAIN pages : RangeHolds(i)

(* Offsets are committed as messages are polled, pages are put later.  All *)
(* the same, a value no read handed over is lost only with the open page   *)
(* of a read that raised, fewer than Limit each time, or was stepped over  *)
(* by a group that started at the end of the topic.                        *)
Reached == {o \in 0 .. position - 1 : log[o + 1] = "value"}

LossBounded ==
  Kafka =>
    Cardinality(Reached \ (passedOn \cup jumped \cup ToSet(data))) <= failed * (Limit - 1)

(* A window never holds more than process_count pages for each read that   *)
(* used its queues.                                                        *)
WindowHolds ==
  waiting + Len(answers) <= ProcessCount * (IF plan.shared THEN reads ELSE 1)

(* A read ends, with any window, unless its caller stopped answering.      *)
Ends == pc \in {"poll", "full", "rest", "await"} ~> (pc = "idle" \/ ~answering)

(* create_topic returns only when there is a topic, unless a deletion was  *)
(* asked for, and write_data only when the producer has nothing left.      *)
TargetHolds ==
  \A c \in Clients :
    /\ cpc[c] = "created" /\ ~doomed => target = "present"
    /\ cpc[c] = "written" => buffer[c] = 0
=============================================================================
