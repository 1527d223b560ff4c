----------------------------- MODULE Translation -----------------------------
(***************************************************************************)
(* A conversation of POST /v1/messages, turn by turn: the client's history *)
(* is validated (anthropic.Parse), translated to Responses input items     *)
(* together with the reasoning the gateway remembered for its own answers  *)
(* (ToResponsesWithContinuations), and, for a provider with wire_api       *)
(* chat_completions, on to Chat Completions messages                       *)
(* (ResponsesToChatCompletionRequest).  The answer comes back through      *)
(* ChatCompletionResponseBody and ToMessage.                               *)
(***************************************************************************)
EXTENDS Integers, Sequences, FiniteSets, SequencesExt, Functions

CONSTANTS
  Texts,       \* text tokens
  Ids,         \* tool call ids
  Thoughts,    \* reasoning of upstream answers, never empty
  MaxMessages, \* bound: messages of a history
  MaxBlocks    \* bound: content blocks of a history, an empty turn counting as one

ASSUME TranslationAssumption ==
  /\ MaxMessages \in Nat
  /\ MaxBlocks \in Nat
  /\ "" \notin Thoughts

VARIABLES
  chat,    \* the candidate's provider speaks chat_completions (never changes)
  opts,    \* the request options (never change)
  history, \* the messages of the client's next request
  conts    \* the reasoning remembered for this session and candidate

vars == <<chat, opts, history, conts>>

(* An image or a document comes from a source that is "ok" or malformed;   *)
(* a document is plain text, or a file.  The content of a tool result is   *)
(* absent, text, or a list of a text and an image, also with is_error.     *)
Images == [type : {"image"}, source : {"ok", "bad"}]
Documents == [type : {"document"}, source : {"text", "file"}]
ToolUses == [type : {"tool_use"}, id : Ids]
ToolResults == [type : {"tool_result"}, id : Ids, body : {"none", "text", "image", "failed"}]
TextBlocks == [type : {"text"}, text : Texts]
Blocks == Images \cup Documents \cup ToolUses \cup ToolResults \cup TextBlocks
            \cup {[type |-> "thinking"]}

(* Content is a string, the shorthand for one text, or a list of blocks. *)
Contents == [form : {"string", "list"}, blocks : Seq(Blocks)]
Messages == [role : {"user", "assistant", "system"}, content : Contents]

-----------------------------------------------------------------------------
(* Request options: the parts of a request that are not its messages.      *)
Efforts == <<"low", "medium", "high", "xhigh", "max">>
Budgets == {1023, 1024, 4096, 4097, 8192, 8193, 32768, 32769}
Options == [thinking : {"absent", "disabled", "adaptive", "enabled", "unknown"},
            budget : Budgets \cup {0}, \* 0: no budget_tokens
            maxTokens : {8192, 64000},
            effort : Range(Efforts) \cup {"absent", "minimal"},
            tools : BOOLEAN,
            choice : {"absent", "auto", "none", "any", "tool", "stranger"},
            numeric : BOOLEAN] \* the candidate is DeepSeek V4.1 Flash

PlainOptions == [thinking |-> "absent", budget |-> 0, maxTokens |-> 8192, effort |-> "absent",
                 tools |-> FALSE, choice |-> "absent", numeric |-> FALSE]

ValidateThinking(o) ==
  \/ o.thinking = "absent"
  \/ o.thinking \in {"disabled", "adaptive"} /\ o.budget = 0
  \/ o.thinking = "enabled" /\ 1024 <= o.budget /\ o.budget < o.maxTokens

(* validateOutputConfig, and validateToolChoice: a tool that is named has  *)
(* to be declared.                                                         *)
ValidateOptions(o) ==
  /\ o.effort \in Range(Efforts) \cup {"absent"}
  /\ o.choice # "stranger"
  /\ o.choice = "tool" => o.tools

(* output_config.effort overrides what thinkingToResponsesEffort derives. *)
ToResponsesEffort(o) ==
  IF o.effort # "absent" THEN o.effort
  ELSE CASE o.thinking = "adaptive" -> "medium"
         [] o.thinking = "enabled" /\ o.budget <= 4096 -> "low"
         [] o.thinking = "enabled" /\ 4096 < o.budget /\ o.budget <= 8192 -> "medium"
         [] o.thinking = "enabled" /\ 8192 < o.budget /\ o.budget <= 32768 -> "high"
         [] o.thinking = "enabled" /\ 32768 < o.budget -> "xhigh"
         [] OTHER -> "absent"

(* A mutant: the strongest effort has no number. *)
MaxUnmapped(effort) ==
  CASE effort = "minimal" -> 1
    [] effort = "low" -> 25
    [] effort = "medium" -> 50
    [] effort = "high" -> 75
    [] effort = "xhigh" -> 90
    [] OTHER -> 0

(* DeepSeek's numeric scale; 0 stands for a conversion error. *)
DeepSeekEffort(effort) ==
  CASE effort = "minimal" -> 1
    [] effort = "low" -> 25
    [] effort = "medium" -> 50
    [] effort = "high" -> 75
    [] effort = "xhigh" -> 90
    [] effort = "max" -> 100
    [] OTHER -> 0

(* The choice is only sent along with tools. *)
ToolChoiceToResponses(o) ==
  IF ~o.tools THEN "absent"
  ELSE CASE o.choice = "any" -> "required"
         [] o.choice = "tool" -> "function"
         [] OTHER -> o.choice

ResponsesToolChoiceToChat(choice) ==
  IF choice \in {"absent", "auto", "none", "required", "function"} THEN choice ELSE "error"

-----------------------------------------------------------------------------
(* anthropic.Parse: validation.                                            *)

BlocksOf(h) == FlattenSeq([i \in DOMAIN h |-> h[i].content.blocks])

RoleAllows(role, b) ==
  /\ b.type \in {"tool_use", "thinking"} => role = "assistant"
  /\ b.type \in {"tool_result", "image", "document"} => role = "user"

(* Ids are used once, and a result refers to a call before it. *)
ToolRelation(bs) ==
  /\ \A j, k \in DOMAIN bs :
       j # k /\ bs[j].type = bs[k].type /\ bs[j].type \in {"tool_use", "tool_result"} =>
         bs[j].id # bs[k].id
  /\ \A k \in DOMAIN bs : bs[k].type = "tool_result" =>
       \E j \in 1 .. k - 1 : bs[j].type = "tool_use" /\ bs[j].id = bs[k].id

ValidateBlocks(h) ==
  /\ \A i \in DOMAIN h : \A j \in DOMAIN h[i].content.blocks :
       RoleAllows(h[i].role, h[i].content.blocks[j])
  /\ ToolRelation(BlocksOf(h))

Accepted ==
  /\ history # <<>>
  /\ ValidateBlocks(history)
  /\ ValidateOptions(opts)
  /\ ValidateThinking(opts)

(* A mutant: images inside of tool results are overlooked. *)
NestedOverlooked(b) == FALSE

NestedContentNeedsVision(b) == b.type = "tool_result" /\ b.body \in {"image", "failed"}

NeedsVision(b) == b.type \in {"image", "document"} \/ NestedContentNeedsVision(b)

DeriveRequirements ==
  [tools     |-> opts.tools,
   reasoning |-> opts.thinking \notin {"absent", "disabled"} \/ opts.effort # "absent",
   vision    |-> \E i \in DOMAIN history : \E j \in DOMAIN history[i].content.blocks :
                   NeedsVision(history[i].content.blocks[j])]

-----------------------------------------------------------------------------
(* ToResponsesWithContinuations.  A text is the sequence of its tokens.    *)

Part(kind, val) == [kind |-> kind, val |-> val]
Failed == Part("error", "error")

ContentPart(b) ==
  CASE b.type = "text" -> Part("text", b.text)
    [] b.type = "image" -> IF b.source = "ok" THEN Part("image", "image") ELSE Failed
    [] b.type = "document" ->
         IF b.source = "text" THEN Part("text", "document") ELSE Part("file", "file")

(* A result that is all text is sent as one string, any other as parts. *)
ToolResultToResponsesOutput(b) ==
  CASE b.body = "none" -> <<>>
    [] b.body = "text" -> <<Part("text", "result")>>
    [] b.body = "image" -> <<Part("text", "result"), Part("image", "image")>>
    [] b.body = "failed" ->
         <<Part("text", "failed"), Part("text", "result"), Part("image", "image")>>

(* An input item, and the turn of the history it comes from. *)
Item(i, type, role, id, parts) ==
  [turn |-> i, type |-> type, role |-> role, id |-> id, parts |-> parts]

(* A mutant: the text collected so far stays behind a tool call. *)
KeepMessage(i, s) == s

(* flushMessage: what was collected becomes a message of its own.  (Empty  *)
(* texts in the lists of an assistant or the system say nothing: they are  *)
(* represented by "thinking", or by their absence.)                        *)
FlushMessage(i, s) ==
  [out     |-> IF s.content = <<>> THEN s.out
               ELSE Append(s.out, Item(i, "message", history[i].role, "", s.content)),
   content |-> <<>>]

AddBlock(i, s, b) ==
  CASE b.type \in {"text", "image", "document"} ->
         [s EXCEPT !.content = Append(@, ContentPart(b))]
    [] b.type = "tool_use" ->
         [FlushMessage(i, s) EXCEPT !.out = Append(@, Item(i, "function_call", "", b.id, <<>>))]
    [] b.type = "tool_result" ->
         [FlushMessage(i, s) EXCEPT !.out =
            Append(@, Item(i, "function_call_output", "", b.id, ToolResultToResponsesOutput(b)))]
    [] b.type = "thinking" -> s

(* reasoningForRequest: what the cache holds for an assistant turn, by the *)
(* fingerprint of its content.                                             *)
Remembered(i) ==
  IF history[i].role = "assistant" /\ history[i].content \in DOMAIN conts
  THEN conts[history[i].content] ELSE <<>>

Reasoning(i, type) ==
  [j \in DOMAIN Remembered(i) |-> Item(i, type, "", Remembered(i)[j], <<>>)]

(* The blocks of a turn, one after the other. *)
BlocksToInput(i) ==
  LET bs == history[i].content.blocks
      s[n \in 0 .. Len(bs)] ==
        IF n = 0 THEN [out |-> <<>>, content |-> <<>>] ELSE AddBlock(i, s[n - 1], bs[n]) IN
  FlushMessage(i, s[Len(bs)]).out

(* A mutant: the marker is put before the turn it belongs to. *)
MarkerFirst(i) ==
  Reasoning(i, IF chat THEN "chat_reasoning" ELSE "reasoning") \o BlocksToInput(i)

(* One turn: a native reasoning item goes before it, the marker for the    *)
(* Chat Completions adapter after it.                                      *)
TurnToInput(i) ==
  (IF chat THEN <<>> ELSE Reasoning(i, "reasoning"))
    \o BlocksToInput(i)
    \o (IF chat THEN Reasoning(i, "chat_reasoning") ELSE <<>>)

MessagesToInput == FlattenSeq([i \in DOMAIN history |-> TurnToInput(i)])

(* A block that cannot be converted fails the request. *)
HasPart(kind) ==
  LET input == MessagesToInput IN
  \E j \in DOMAIN input : \E k \in DOMAIN input[j].parts : input[j].parts[k].kind = kind

-----------------------------------------------------------------------------
(* ResponsesToChatCompletionRequest.                                       *)

ChatMessage(it, role, parts, calls) ==
  [turn |-> it.turn, role |-> role, id |-> it.id, parts |-> parts, calls |-> calls,
   reasoning |-> ""]

(* A tool message has text content only: other parts are sent as JSON. *)
JsonValueToString(parts) == [k \in DOMAIN parts |-> Part("text", parts[k].val)]

(* A mutant: every call gets an assistant message of its own. *)
NeverJoins(out) == FALSE

JoinsLast(out) == out # <<>> /\ Last(out).role = "assistant"

(* The last assistant message, 0 if there is none. *)
LastAssistant(out) == SelectLastInSeq(out, LAMBDA m : m.role = "assistant")

(* A file among the parts of a message has no counterpart. *)
PartsConvert(it) == \A k \in DOMAIN it.parts : it.parts[k].kind # "file"

JoinCall(out, id) == [out EXCEPT ![Len(out)].calls = Append(@, id)]

SetReasoning(out, thought) == [out EXCEPT ![LastAssistant(out)].reasoning = thought]

AddItem(s, it) ==
  CASE ~s.ok -> s
    [] s.ok /\ it.type = "message" /\ PartsConvert(it) ->
         [s EXCEPT !.out = Append(@, ChatMessage(it, it.role, it.parts, <<>>))]
    [] s.ok /\ it.type = "function_call" ->
         [s EXCEPT !.out = IF JoinsLast(@) THEN JoinCall(@, it.id)
                           ELSE Append(@, ChatMessage(it, "assistant", <<>>, <<it.id>>))]
    [] s.ok /\ it.type = "function_call_output" ->
         [s EXCEPT !.out = Append(@, ChatMessage(it, "tool", JsonValueToString(it.parts), <<>>))]
    [] s.ok /\ it.type = "chat_reasoning" /\ LastAssistant(s.out) # 0 ->
         [s EXCEPT !.out = SetReasoning(@, it.id)]
    [] OTHER -> [s EXCEPT !.ok = FALSE]

ResponsesInputToChat ==
  LET input == MessagesToInput
      s[n \in 0 .. Len(input)] ==
        IF n = 0 THEN [ok |-> TRUE, out |-> <<>>] ELSE AddItem(s[n - 1], input[n]) IN
  s[Len(input)]

EffortConverts ==
  opts.numeric /\ ToResponsesEffort(opts) # "absent" =>
    DeepSeekEffort(ToResponsesEffort(opts)) \in 1 .. 100

(* A request without messages is refused (a system prompt, which would     *)
(* count as one, is left out).                                             *)
ChatRequestOK ==
  /\ ResponsesInputToChat.ok
  /\ ResponsesInputToChat.out # <<>>
  /\ EffortConverts
  /\ ResponsesToolChoiceToChat(ToolChoiceToResponses(opts)) # "error"

-----------------------------------------------------------------------------
(* The conversation.                                                       *)
Init ==
  /\ chat \in BOOLEAN
  /\ opts \in Options
  /\ opts.numeric => chat
  /\ opts.thinking = "absent" => opts.budget = 0
  /\ history = <<>>
  /\ conts = <<>>

(* Bounds: a history that is refused, by Parse or for a malformed image,   *)
(* is not extended, for no extension of it is accepted; options, which are *)
(* translated independently of the messages, are varied for a history of   *)
(* one text only; a block that is not its role's is only tried first.      *)
EmptyTurns(h) == {i \in DOMAIN h : h[i].content.blocks = <<>>}

Size(h) == Len(BlocksOf(h)) + Cardinality(EmptyTurns(h))

Room ==
  /\ Size(history) < MaxBlocks
  /\ opts = PlainOptions \/ history = <<>>
  /\ ValidateBlocks(history)
  /\ ~HasPart("error")

Plausible(role, b) ==
  IF history = <<>> THEN opts = PlainOptions \/ (role = "user" /\ b.type = "text")
  ELSE RoleAllows(role, b)

(* The client adds a turn: a string, or a list of one block or of none,    *)
(* which validateBlocks accepts of every role.  Or it extends its turn.    *)
ClientWrites ==
  /\ Len(history) < MaxMessages
  /\ Room
  /\ \E role \in {"user", "assistant", "system"}, form \in {"string", "list"},
        bs \in {<<>>} \cup {<<b>> : b \in Blocks} :
       /\ IF bs = <<>> THEN opts = PlainOptions ELSE Plausible(role, bs[1])
       /\ form = "string" => bs # <<>> /\ bs[1].type = "text"
       /\ history' = Append(history, [role |-> role, content |-> [form |-> form, blocks |-> bs]])
  /\ UNCHANGED <<chat, opts, conts>>

ClientExtends ==
  /\ history # <<>>
  /\ Last(history).content.form = "list"
  /\ Room
  /\ \E b \in Blocks :
       /\ Plausible(Last(history).role, b)
       /\ history' = [history EXCEPT ![Len(history)].content.blocks = Append(@, b)]
  /\ UNCHANGED <<chat, opts, conts>>

(* ToMessage of the upstream's output: its texts and its function calls,   *)
(* which ChatCompletionResponseBody puts after the text.  An answer of     *)
(* nothing but reasoning has no content.                                   *)
Answers ==
  {<<>>} \cup {<<b>> : b \in TextBlocks \cup ToolUses}
    \cup {<<b, c>> : b \in TextBlocks \cup ToolUses, c \in ToolUses}
    \cup (IF chat THEN {} ELSE {<<c, b>> : b \in TextBlocks, c \in ToolUses})

(* The gateway answers the accepted request; the client appends the answer *)
(* and rememberReasoning keeps its reasoning, if any, under that content.  *)
UpstreamAnswers ==
  /\ Len(history) < MaxMessages
  /\ Room
  /\ Accepted
  /\ chat => ChatRequestOK
  /\ \E answer \in Answers :
       LET content == [form |-> "list", blocks |-> answer] IN
       /\ Size(history) + Len(answer) <= MaxBlocks
       /\ history' = Append(history, [role |-> "assistant", content |-> content])
       /\ \/ conts' = conts
          \/ \E thought \in Thoughts :
               conts' = [c \in DOMAIN conts \cup {content} |->
                           IF c = content THEN <<thought>> ELSE conts[c]]
  /\ UNCHANGED <<chat, opts>>

(* The cache lets go of an entry that expired or had to make room. *)
Forget ==
  /\ \E content \in DOMAIN conts : conts' = Restrict(conts, DOMAIN conts \ {content})
  /\ UNCHANGED <<chat, opts, history>>

Next == ClientWrites \/ ClientExtends \/ UpstreamAnswers \/ Forget

Spec == Init /\ [][Next]_vars

-----------------------------------------------------------------------------
(* Properties.                                                             *)

(* What a history says, in order: its texts, images, files, calls and      *)
(* results, which reach a Chat Completions upstream as text.               *)
BlockTokens(b, asText) ==
  CASE b.type \in {"text", "image", "document"} -> <<ContentPart(b)>>
    [] b.type = "tool_use" -> <<Part("call", b.id)>>
    [] b.type = "tool_result" ->
         <<Part("result", b.id)>>
           \o (IF asText THEN JsonValueToString(ToolResultToResponsesOutput(b))
               ELSE ToolResultToResponsesOutput(b))
    [] b.type = "thinking" -> <<>>

HistoryTokens(asText) ==
  LET bs == BlocksOf(history) IN
  FlattenSeq([i \in DOMAIN bs |-> BlockTokens(bs[i], asText)])

ItemTokens(it) ==
  CASE it.type = "message" -> it.parts
    [] it.type = "function_call" -> <<Part("call", it.id)>>
    [] it.type = "function_call_output" -> <<Part("result", it.id)>> \o it.parts
    [] OTHER -> <<>>

ChatTokens(m) ==
  IF m.role = "tool" THEN <<Part("result", m.id)>> \o m.parts
  ELSE m.parts \o [k \in DOMAIN m.calls |-> Part("call", m.calls[k])]

(* The conversation reaches the upstream whole: the input items, and the   *)
(* Chat Completions messages made of them, hold every text, image, call    *)
(* and result of the history once and in order, each tool result under its *)
(* own call; only thinking blocks are left out.                            *)
FaithfulHistory ==
  Accepted /\ ~HasPart("error") =>
    LET input == MessagesToInput
        conv == ResponsesInputToChat IN
    /\ FlattenSeq([j \in DOMAIN input |-> ItemTokens(input[j])]) = HistoryTokens(FALSE)
    /\ chat /\ conv.ok =>
         FlattenSeq([j \in DOMAIN conv.out |-> ChatTokens(conv.out[j])]) = HistoryTokens(TRUE)

(* A turn that says anything: neither empty nor all thinking. *)
Speaks(i) ==
  \E k \in DOMAIN history[i].content.blocks : history[i].content.blocks[k].type # "thinking"

(* The calls of a turn, and the results the next turn starts with. *)
CallsOf(i) ==
  {history[i].content.blocks[k].id : k \in {k \in DOMAIN history[i].content.blocks :
     history[i].content.blocks[k].type = "tool_use"}}

ResultIds(bs) == {bs[k].id : k \in {k \in DOMAIN bs : bs[k].type = "tool_result"}}

(* A history as the Messages API wants it: calls end their turn, and the   *)
(* next turn is the user's and starts with their results.                  *)
CallsAreAnswered ==
  \A i \in DOMAIN history : CallsOf(i) # {} =>
    LET n == Cardinality(CallsOf(i))
        bs == history[i].content.blocks IN
    /\ \A k \in DOMAIN bs : bs[k].type = "tool_use" => k > Len(bs) - n
    /\ i < Len(history)
    /\ history[i + 1].role = "user"
    /\ Len(history[i + 1].content.blocks) >= n
    /\ ResultIds(SubSeq(history[i + 1].content.blocks, 1, n)) = CallsOf(i)

(* For such a history every Chat Completions message with tool calls holds *)
(* the calls of one turn and is followed directly by one tool message per  *)
(* call, as that API demands.                                              *)
ResultsFollowCalls ==
  chat /\ Accepted /\ ~HasPart("error") /\ CallsAreAnswered =>
    LET out == ResponsesInputToChat.out IN
    \A j \in DOMAIN out : out[j].calls # <<>> =>
      /\ \E i \in DOMAIN history : Range(out[j].calls) = CallsOf(i)
      /\ \A k \in 1 .. Len(out[j].calls) :
           j + k \in DOMAIN out /\ out[j + k].role = "tool"
      /\ {out[j + k].id : k \in 1 .. Len(out[j].calls)} = Range(out[j].calls)

(* Every assistant turn says something, and so does someone else between   *)
(* two of them.  (Parse accepts other histories: an empty turn leaves no   *)
(* input item, and the calls of the turns before and after it are joined.) *)
Alternates ==
  \A i \in DOMAIN history : history[i].role = "assistant" =>
    /\ Speaks(i)
    /\ \A k \in 1 .. i - 1 : history[k].role = "assistant" =>
         \E j \in k + 1 .. i - 1 : history[j].role # "assistant" /\ Speaks(j)

(* "assistant turn must immediately follow its reasoning item", as a test  *)
(* of the Responses path says.                                             *)
TurnFollowsReasoning ==
  ~chat /\ Accepted /\ ~HasPart("error") =>
    LET input == MessagesToInput IN
    \A j \in DOMAIN input : input[j].type = "reasoning" =>
      j + 1 \in DOMAIN input /\ input[j + 1].turn = input[j].turn

(* The reasoning the gateway remembered for a turn goes with that turn and *)
(* no other: before its first item as an item of its own, or on its last   *)
(* Chat Completions message.                                               *)
ReasoningInPlace ==
  Accepted /\ ~HasPart("error") /\ Alternates =>
    /\ TurnFollowsReasoning
    /\ chat /\ ResponsesInputToChat.ok =>
         LET out == ResponsesInputToChat.out IN
         \A i \in DOMAIN history :
           LET said == {j \in DOMAIN out : out[j].turn = i /\ out[j].reasoning # ""} IN
           IF Remembered(i) = <<>> THEN said = {}
           ELSE \E j \in said :
                  /\ said = {j}
                  /\ out[j].reasoning = Remembered(i)[1]
                  /\ \A k \in DOMAIN out : out[k].turn = i => k <= j

(* What the Chat Completions adapter refuses of the requests that Parse    *)
(* accepted: a document that is a file, a conversation in which no turn    *)
(* says anything, and reasoning remembered for an assistant's turn when no *)
(* assistant has said anything so far; and nothing else, for every effort  *)
(* and tool choice has a counterpart, and every other marker its message.  *)
SaidBefore(i) == \E k \in 1 .. i : history[k].role = "assistant" /\ Speaks(k)

AcceptedConverts ==
  chat /\ Accepted /\ ~HasPart("error") =>
    (ChatRequestOK <=>
       /\ ~HasPart("file")
       /\ \E i \in DOMAIN history : Speaks(i)
       /\ \A i \in DOMAIN history : Remembered(i) # <<>> => SaidBefore(i))

(* Candidates are filtered by what is really sent: an effort is sent just  *)
(* if a model that reasons is required, images and files only to a model   *)
(* with vision, wherever the history hides them.                           *)
RequirementsMatch ==
  Accepted /\ ~HasPart("error") =>
    /\ DeriveRequirements.reasoning <=> ToResponsesEffort(opts) # "absent"
    /\ HasPart("image") \/ HasPart("file") => DeriveRequirements.vision

(* What the protocol's documentation says of thinking: that a fixed budget *)
(* is refused, and that adaptive thinking is a requirement of routing and  *)
(* nothing else, an effort being sent only for output_config.effort.       *)
ThinkingAsDocumented ==
  Accepted =>
    /\ opts.thinking # "enabled"
    /\ opts.effort = "absent" => ToResponsesEffort(opts) = "absent"
=============================================================================
