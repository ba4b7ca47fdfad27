---------------------------- MODULE StackGateway ----------------------------
(***************************************************************************)
(* The OpenAI-compatible front of the account stack                        *)
(* (integrations/opencode-http-gateway/adapter.ts): chat completions and    *)
(* Responses requests, streamed or not, over an upstream event stream, the  *)
(* Responses stream encoder (responses-protocol.ts) and the continuation    *)
(* store that lets a request name the response it continues                 *)
(* (continuation-store.ts, distributed-state.ts).  A request, its response  *)
(* and the id of that response are one member of Asks.  A message is named   *)
(* by the request that brought it, its role and its place in the input;     *)
(* texts are the number of deltas they were streamed in.                    *)
(***************************************************************************)
EXTENDS Naturals, Sequences, SequencesExt

CONSTANTS
    Asks,        \* requests, and the ids of their responses
    NoAsk,
    Shapes,      \* per request: the payloads it may have, and the blocks and stop reasons the model may answer it with
    MaxEntries,  \* maxStoredResponses
    MaxBlocks,   \* bound on the content blocks the upstream produces, over all requests
    MaxFaults    \* bound on failures, disconnections and expiries

ASSUME StackGatewayAssumption == NoAsk \notin Asks /\ MaxEntries \in Nat

VARIABLES
    stage,       \* "idle", "lookup", "upstream", "storing", "closed", "errored", "answered", "refused"
    shape,    \* the payload
    prev,     \* previous_response_id, or NoAsk
    ctx,      \* the Context given to the model
    content,  \* event.message.content: the blocks produced so far
    open,     \* whether the last block has not ended
    sent,     \* the frames enqueued for the client, which reads a prefix of them
    alive,    \* the stream's consumer is connected
    reason,   \* stopReason of the message being stored
    records,  \* #records, in insertion order
    puts,     \* history: the ids stored, in order
    lapsed,   \* history: the ids whose time to live has elapsed
    faults    \* how many failures, disconnections and expiries there were

gatewayVars == <<stage, shape, prev, ctx, content, open, sent, alive, reason, records, puts, lapsed, faults>>
streamVars == <<content, open, sent, alive, reason>>

NoShape == [path |-> "none", kinds |-> {}, reasons |-> {}]
NoContext == [system |-> <<>>, messages |-> <<>>, tools |-> NoAsk]

GatewayInit ==
    /\ stage = [a \in Asks |-> "idle"]
    /\ shape = [a \in Asks |-> NoShape]
    /\ prev = [a \in Asks |-> NoAsk]
    /\ ctx = [a \in Asks |-> NoContext]
    /\ content = [a \in Asks |-> <<>>]
    /\ open = [a \in Asks |-> FALSE]
    /\ sent = [a \in Asks |-> <<>>]
    /\ alive = [a \in Asks |-> TRUE]
    /\ reason = [a \in Asks |-> "none"]
    /\ records = <<>>
    /\ puts = <<>>
    /\ lapsed = {}
    /\ faults = 0

-----------------------------------------------------------------------------
(* Contexts *)

Message(a, role, k) == [of |-> a, role |-> role, nth |-> k]

\* function_call_output becomes a tool result, a function_call an assistant
\* message, and an item that is none of these (a reasoning item) nothing.
MessageRole(item) ==
    CASE item = "user" -> "user"
      [] item \in {"assistant", "function_call", "message"} -> "assistant"
      [] item \in {"tool", "function_call_output"} -> "toolResult"
      [] OTHER -> "none"

AppendItem(a, c, k) ==
    LET item == shape'[a].input[k] IN
    IF item \in {"system", "developer"}
    THEN [c EXCEPT !.system = Append(@, Message(a, item, k))]
    ELSE IF MessageRole(item) = "none" THEN c
    ELSE [c EXCEPT !.messages = Append(@, Message(a, MessageRole(item), k))]

AppendItems(a, c) == FoldLeft(LAMBDA d, k : AppendItem(a, d, k), c, [k \in 1..Len(shape'[a].input) |-> k])

WithTools(a, c) == IF shape'[a].tools THEN [c EXCEPT !.tools = a] ELSE c

ToPiChatContext(a) == AppendItems(a, WithTools(a, NoContext))

ToPiResponsesContext(a, previous) ==
    WithTools(a, AppendItems(a, [previous EXCEPT !.system =
        IF shape'[a].instructions THEN <<Message(a, "instructions", 0)>> ELSE <<>>]))

AppendAssistant(a) == [ctx[a] EXCEPT !.messages = Append(@, Message(a, "answer", 0))]

-----------------------------------------------------------------------------
(* The Responses stream encoder: every event family as the frames it makes *)

Frame(type, i, id) == [type |-> type, index |-> i, item |-> id]
ItemId(kind, i) == <<kind, i>>

Created == [type |-> "created"]
InProgress == [type |-> "in_progress"]

TextStart(i) == <<Frame("item.added", i, ItemId("msg", i)), Frame("part.added", i, ItemId("msg", i))>>
TextDelta(i) == <<Frame("delta", i, ItemId("msg", i))>>
TextDone(i) == <<Frame("text.done", i, ItemId("msg", i)), Frame("part.done", i, ItemId("msg", i)), Frame("item.done", i, ItemId("msg", i))>>
ReasoningStart(i) == <<Frame("item.added", i, ItemId("rs", i)), Frame("part.added", i, ItemId("rs", i))>>
ReasoningDelta(i) == <<Frame("delta", i, ItemId("rs", i))>>
ReasoningDone(i) == <<Frame("text.done", i, ItemId("rs", i)), Frame("part.done", i, ItemId("rs", i)), Frame("item.done", i, ItemId("rs", i))>>
FunctionStart(i) == <<Frame("item.added", i, ItemId("fc", i))>>
FunctionDelta(i) == <<Frame("delta", i, ItemId("fc", i))>>
FunctionDone(i) == <<Frame("arguments.done", i, ItemId("fc", i)), Frame("item.done", i, ItemId("fc", i))>>

\* What a block becomes in a response object; an empty thinking block becomes nothing.
ResponseBlocks(c) == SelectSeq(c, LAMBDA b : b.kind # "thinking" \/ b.text > 0)

ItemKind == [text |-> "msg", thinking |-> "rs", toolCall |-> "fc"]

\* The ids of the items are their places among the blocks that are kept.
ToResponsesObject(blocks, status) ==
    [type |-> status, output |-> [i \in DOMAIN blocks |-> [id |-> ItemId(ItemKind[blocks[i].kind], i - 1), text |-> blocks[i].text]]]

Completed(c) == ToResponsesObject(ResponseBlocks(c), "completed")
Incomplete(c) == ToResponsesObject(ResponseBlocks(c), "incomplete")
Failed == ToResponsesObject(<<>>, "failed")
Terminal == {"completed", "incomplete", "failed"}

-----------------------------------------------------------------------------
(* The continuation store *)

WithId(id) == {i \in DOMAIN records : records[i].id = id}
Without(id) == SelectSeq(records, LAMBDA r : r.id # id)

\* putContinuation: the record moves to the end, then the oldest are evicted.
\* The Postgres store has the same rows and evicts none.
PutContinuation(a) ==
    LET q == Append(Without(a), [id |-> a, tenant |-> shape[a].tenant, value |-> AppendAssistant(a), expired |-> FALSE])
    IN  /\ records' = SubSeq(q, IF Len(q) > MaxEntries THEN Len(q) - MaxEntries + 1 ELSE 1, Len(q))
        /\ puts' = Append(puts, a)

\* Mutated: the record of any tenant is found.
FoundOfAnyTenant(id, tenant) == {i \in WithId(id) : ~records[i].expired}

Found(id, tenant) == {i \in WithId(id) : ~records[i].expired /\ records[i].tenant = tenant}

\* A record found expired is deleted by the read.
AfterGet(id) == SelectSeq(records, LAMBDA r : ~(r.id = id /\ r.expired))

Fault == faults < MaxFaults /\ faults' = faults + 1

\* Records have one time to live, so they expire in the order they were put.
TtlElapses ==
    /\ Fault
    /\ \E i \in DOMAIN records :
          /\ ~records[i].expired
          /\ \A j \in 1..(i - 1) : records[j].expired
          /\ records' = [records EXCEPT ![i].expired = TRUE]
          /\ lapsed' = lapsed \cup {records[i].id}
    /\ UNCHANGED <<stage, shape, prev, ctx, streamVars, puts>>

PruneContinuations ==
    /\ \E i \in DOMAIN records : records[i].expired
    /\ records' = SelectSeq(records, LAMBDA r : ~r.expired)
    /\ UNCHANGED <<stage, shape, prev, ctx, streamVars, puts, lapsed, faults>>

-----------------------------------------------------------------------------
(* handle *)

Becomes(a, where) == stage' = [stage EXCEPT ![a] = where]
Send(a, frames) == sent' = [sent EXCEPT ![a] = IF alive[a] THEN @ \o frames ELSE @]

\* The first frames of a stream; a request that is not streamed has none.
Preamble(a) ==
    IF ~shape'[a].stream THEN <<>>
    ELSE IF shape'[a].path = "chat" THEN <<[type |-> "role"]>> ELSE <<Created, InProgress>>

\* The response ids a client can know: those of streams that began and of answers.
Announced == {b \in Asks : sent[b] # <<>> \/ stage[b] = "answered"}

HandleRequest(a, s, p) ==
    /\ stage[a] = "idle"
    /\ s.path # "responses" => p = NoAsk
    /\ shape' = [shape EXCEPT ![a] = s]
    /\ prev' = [prev EXCEPT ![a] = p]
    /\ \/ /\ s.path = "unsupported" /\ Becomes(a, "refused")
          /\ UNCHANGED <<ctx, sent>>
       \/ /\ s.path = "chat" /\ Becomes(a, "upstream")
          /\ ctx' = [ctx EXCEPT ![a] = ToPiChatContext(a)]
          /\ Send(a, Preamble(a))
       \/ /\ s.path = "responses" /\ p = NoAsk /\ Becomes(a, "upstream")
          /\ ctx' = [ctx EXCEPT ![a] = ToPiResponsesContext(a, NoContext)]
          /\ Send(a, Preamble(a))
       \/ /\ s.path = "responses" /\ p # NoAsk /\ Becomes(a, "lookup")
          /\ UNCHANGED <<ctx, sent>>
    /\ UNCHANGED <<content, open, alive, reason, records, puts, lapsed, faults>>

\* handleResponses, once getContinuation has answered.
HandleResponses(a) ==
    /\ stage[a] = "lookup"
    /\ shape' = shape
    /\ records' = AfterGet(prev[a])
    /\ LET f == Found(prev[a], shape[a].tenant) IN
       \/ /\ f = {} /\ Becomes(a, "refused")
          /\ UNCHANGED <<ctx, sent>>
       \/ \E i \in f :
          /\ Becomes(a, "upstream")
          /\ ctx' = [ctx EXCEPT ![a] = ToPiResponsesContext(a, records[i].value)]
          /\ Send(a, Preamble(a))
    /\ UNCHANGED <<prev, content, open, alive, reason, puts, lapsed, faults>>

\* getContinuation rejects: the server answers 400.
LookupThrows(a) ==
    /\ Fault
    /\ stage[a] = "lookup"
    /\ Becomes(a, "refused")
    /\ UNCHANGED <<shape, prev, ctx, streamVars, records, puts, lapsed>>

-----------------------------------------------------------------------------
(* The upstream's events, as the stream handlers treat them *)

Streaming(a) == stage[a] = "upstream" /\ shape[a].stream /\ alive[a]
Index(a) == Len(content[a]) - 1
Produced == FoldSet(LAMBDA a, n : Len(content[a]) + n, 0, Asks)

ChatFrames(kind, what) ==
    CASE kind = "text" /\ what = "delta" -> <<[type |-> "content"]>>
      [] kind = "toolCall" /\ what = "start" -> <<[type |-> "tool_calls"]>>
      [] kind = "toolCall" /\ what = "delta" -> <<[type |-> "arguments"]>>
      [] OTHER -> <<>>

ResponsesFrames(kind, what, i) ==
    CASE kind = "text" -> (CASE what = "start" -> TextStart(i) [] what = "delta" -> TextDelta(i) [] what = "end" -> TextDone(i))
      [] kind = "thinking" -> (CASE what = "start" -> ReasoningStart(i) [] what = "delta" -> ReasoningDelta(i) [] what = "end" -> ReasoningDone(i))
      [] kind = "toolCall" -> (CASE what = "start" -> FunctionStart(i) [] what = "delta" -> FunctionDelta(i) [] what = "end" -> FunctionDone(i))

Encode(a, kind, what, i) == IF shape[a].path = "chat" THEN ChatFrames(kind, what) ELSE ResponsesFrames(kind, what, i)

BlockStart(a, kind) ==
    /\ Streaming(a) /\ ~open[a] /\ Produced < MaxBlocks
    /\ content' = [content EXCEPT ![a] = Append(@, [kind |-> kind, text |-> 0])]
    /\ open' = [open EXCEPT ![a] = TRUE]
    /\ Send(a, Encode(a, kind, "start", Len(content[a])))
    /\ UNCHANGED <<stage, shape, prev, ctx, alive, reason, records, puts, lapsed, faults>>

BlockDelta(a) ==
    /\ Streaming(a) /\ open[a] /\ Last(content[a]).text = 0
    /\ content' = [content EXCEPT ![a][Len(content[a])].text = 1]
    /\ Send(a, Encode(a, Last(content[a]).kind, "delta", Index(a)))
    /\ UNCHANGED <<stage, shape, prev, ctx, open, alive, reason, records, puts, lapsed, faults>>

BlockEnd(a) ==
    /\ Streaming(a) /\ open[a]
    /\ open' = [open EXCEPT ![a] = FALSE]
    /\ Send(a, Encode(a, Last(content[a]).kind, "end", Index(a)))
    /\ UNCHANGED <<stage, shape, prev, ctx, content, alive, reason, records, puts, lapsed, faults>>

TerminalFrame(a) == IF reason'[a] = "length" THEN Incomplete(content[a]) ELSE Completed(content[a])

\* Mutated: the last frame first.
DoneSendsFirst(a, r) ==
    /\ Streaming(a) /\ ~open[a]
    /\ reason' = [reason EXCEPT ![a] = r]
    /\ IF shape[a].path = "chat"
       THEN Becomes(a, "closed") /\ Send(a, <<[type |-> "finish"], [type |-> "DONE"]>>)
       ELSE Send(a, <<TerminalFrame(a)>>) /\ Becomes(a, IF shape[a].store THEN "storing" ELSE "closed")
    /\ UNCHANGED <<shape, prev, ctx, content, open, alive, records, puts, lapsed, faults>>

\* done: a response that is to be stored is stored before its last frame.
Done(a, r) ==
    /\ Streaming(a) /\ ~open[a]
    /\ reason' = [reason EXCEPT ![a] = r]
    /\ IF shape[a].path = "chat"
       THEN Becomes(a, "closed") /\ Send(a, <<[type |-> "finish"], [type |-> "DONE"]>>)
       ELSE IF shape[a].store THEN Becomes(a, "storing") /\ sent' = sent
       ELSE Becomes(a, "closed") /\ Send(a, <<TerminalFrame(a)>>)
    /\ UNCHANGED <<shape, prev, ctx, content, open, alive, records, puts, lapsed, faults>>

\* An error event ends the stream, wherever its blocks are.
Error(a) ==
    /\ Fault
    /\ Streaming(a)
    /\ Becomes(a, "closed")
    /\ Send(a, IF shape[a].path = "chat" THEN <<[type |-> "error"], [type |-> "DONE"]>> ELSE <<Failed>>)
    /\ UNCHANGED <<shape, prev, ctx, content, open, alive, reason, records, puts, lapsed>>

\* The event iterator throws: a Responses stream is told, a chat stream is errored.
StreamThrows(a) ==
    /\ Fault
    /\ Streaming(a)
    /\ \/ shape[a].path = "responses" /\ Becomes(a, "closed") /\ Send(a, <<Failed>>)
       \/ shape[a].path = "chat" /\ Becomes(a, "errored") /\ sent' = sent
    /\ UNCHANGED <<shape, prev, ctx, content, open, alive, reason, records, puts, lapsed>>

\* sendResponse sees the client close: cancel() of the body.  The handler
\* returns at the next event.
ClientCloses(a) ==
    /\ Fault
    /\ stage[a] \in {"upstream", "storing"} /\ shape[a].stream /\ alive[a]
    /\ alive' = [alive EXCEPT ![a] = FALSE]
    /\ UNCHANGED <<stage, shape, prev, ctx, content, open, sent, reason, records, puts, lapsed>>

-----------------------------------------------------------------------------
(* completeSimple: the whole message at once *)

Complete(a) ==
    /\ stage[a] = "upstream" /\ ~shape[a].stream
    /\ \E r \in shape[a].reasons : reason' = [reason EXCEPT ![a] = r]
    /\ \E b \in {<<>>} \cup {<<x>> : x \in [kind : shape[a].kinds, text : 0..1]} :
          /\ Produced + Len(b) <= MaxBlocks
          /\ content' = [content EXCEPT ![a] = b]
    /\ Becomes(a, IF shape[a].path = "responses" /\ shape[a].store THEN "storing" ELSE "answered")
    /\ UNCHANGED <<shape, prev, ctx, open, sent, alive, records, puts, lapsed, faults>>

\* stopReason error or aborted (the request's signal): 502 or 499.
CompleteFails(a) ==
    /\ Fault
    /\ stage[a] = "upstream" /\ ~shape[a].stream
    /\ Becomes(a, "refused")
    /\ UNCHANGED <<shape, prev, ctx, streamVars, records, puts, lapsed>>

-----------------------------------------------------------------------------
(* storeResponse *)

StoreResponse(a) ==
    /\ stage[a] = "storing"
    /\ PutContinuation(a)
    /\ reason' = reason
    /\ IF shape[a].stream
       THEN Becomes(a, "closed") /\ Send(a, <<TerminalFrame(a)>>)
       ELSE Becomes(a, "answered") /\ sent' = sent
    /\ UNCHANGED <<shape, prev, ctx, content, open, alive, lapsed, faults>>

\* The store rejects: a stream is told it failed, a plain request is answered 400.
StoreResponseThrows(a) ==
    /\ Fault
    /\ stage[a] = "storing"
    /\ IF shape[a].stream
       THEN Becomes(a, "closed") /\ Send(a, <<Failed>>)
       ELSE Becomes(a, "refused") /\ sent' = sent
    /\ UNCHANGED <<shape, prev, ctx, content, open, alive, reason, records, puts, lapsed>>

-----------------------------------------------------------------------------
GatewayNext ==
    \/ TtlElapses
    \/ PruneContinuations
    \/ \E a \in Asks :
        \/ \E s \in Shapes[a], p \in Announced \cup {NoAsk} : HandleRequest(a, s, p)
        \/ HandleResponses(a)
        \/ LookupThrows(a)
        \/ \E kind \in shape[a].kinds : BlockStart(a, kind)
        \/ BlockDelta(a)
        \/ BlockEnd(a)
        \/ \E r \in shape[a].reasons : Done(a, r)
        \/ Error(a)
        \/ StreamThrows(a)
        \/ ClientCloses(a)
        \/ Complete(a)
        \/ CompleteFails(a)
        \/ StoreResponse(a)
        \/ StoreResponseThrows(a)

GatewaySpec == GatewayInit /\ [][GatewayNext]_gatewayVars
-----------------------------------------------------------------------------
(* Properties *)

Responses(a) == shape[a].path = "responses"
Ends(a) == {i \in DOMAIN sent[a] : sent[a][i].type \in Terminal}
Items(a, type) == SelectSeq(sent[a], LAMBDA f : f.type = type)
Deltas(a, id) == Len(SelectSeq(sent[a], LAMBDA f : f.type = "delta" /\ f.item = id))
NoEmptyThought(a) == \A i \in DOMAIN content[a] : content[a][i].kind = "thinking" => content[a][i].text > 0

\* A Responses stream (adapter.ts streamResponses) tells one story: nothing
\* follows its terminal frame, a client that stays to the end gets exactly one,
\* a delta belongs to an item that is open, and a completed or incomplete
\* response lists the items that were streamed, all of them finished, under the
\* same ids and with the same text (as long as no thinking block was empty:
\* responseBlocks drops those and renumbers the others).
StreamTellsOneStory ==
    \A a \in Asks : Responses(a) /\ shape[a].stream =>
        /\ Ends(a) \subseteq {Len(sent[a])}
        /\ stage[a] = "closed" /\ alive[a] => Ends(a) # {}
        /\ \A i \in DOMAIN sent[a] : sent[a][i].type = "delta" =>
              /\ \E j \in 1..(i - 1) : sent[a][j].type = "item.added" /\ sent[a][j].item = sent[a][i].item
              /\ ~\E j \in 1..(i - 1) : sent[a][j].type = "item.done" /\ sent[a][j].item = sent[a][i].item
        /\ Ends(a) # {} /\ Last(sent[a]).type # "failed" =>
              LET added == Items(a, "item.added")
                  out == Last(sent[a]).output IN
              /\ [i \in DOMAIN added |-> added[i].item] = [i \in DOMAIN Items(a, "item.done") |-> Items(a, "item.done")[i].item]
              /\ NoEmptyThought(a) =>
                    /\ Len(out) = Len(added)
                    /\ \A i \in DOMAIN out : out[i].id = added[i].item /\ out[i].text = Deltas(a, out[i].id)

\* A response the client saw completed (or got as an answer) and asked to be
\* stored can be continued (adapter.ts:263, :131): its record is in the store,
\* with its whole conversation, unless its time to live has elapsed or
\* maxStoredResponses newer responses were stored since (continuation-store.ts:23).
CompletedCanContinue ==
    \A a \in Asks :
        /\ Responses(a) /\ shape[a].store
        /\ stage[a] = "answered" \/ \E i \in Ends(a) : sent[a][i].type # "failed"
        => \/ \E i \in WithId(a) : records[i].value = AppendAssistant(a)
           \/ a \in lapsed
           \/ \E i \in DOMAIN puts : puts[i] = a /\ Len(puts) - i >= MaxEntries

\* What a Responses client was told, streamed or not, is one response, and the
\* response it can go on from (streamResponses, handleResponses): the frames tell
\* one story, and a stored answer the client has seen is in the store.
StreamedIsKept == StreamTellsOneStory /\ CompletedCanContinue

Own(a) == SelectSeq([k \in DOMAIN shape[a].input |-> Message(a, MessageRole(shape[a].input[k]), k)], LAMBDA x : x.role # "none")

\* The model is given the conversation the client named and nothing else
\* (toPiResponsesContext, getContinuation): the messages of the response it
\* continues, that response, then its own input, all of one tenant; and only its
\* own instructions and developer messages, whatever other requests run meanwhile.
ConversationIsOwn ==
    \A a \in Asks : stage[a] \notin {"idle", "lookup", "refused"} =>
        /\ ctx[a].messages = (IF prev[a] = NoAsk THEN <<>> ELSE AppendAssistant(prev[a]).messages) \o Own(a)
        /\ prev[a] # NoAsk => shape[prev[a]].tenant = shape[a].tenant
        /\ \A i \in DOMAIN ctx[a].system : ctx[a].system[i].of = a
=============================================================================
