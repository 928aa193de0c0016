-------------------------------- MODULE Requests --------------------------------
(* The request each provider is sent: build_anthropic_body, which Vertex shares,   *)
(* and complete() of openai.rs and gemini.rs, down to the JSON that is posted, with *)
(* the tools as adapt.rs writes them. What is well-formed in the conversation must  *)
(* still be so in the provider's own format, as a refusal costs the whole turn.     *)
(*                                                                                 *)
(* A message is a role and blocks; MessageContent::Text is one text block. Texts    *)
(* are labels. A message on the wire is a role and parts, which are such blocks.    *)
EXTENDS History, Settings, FiniteSets, SequencesExt

CONSTANT Asked      \* the requests the agent may make: messages, settings, tools

Providers == {"anthropic", "openai", "gemini"}

Block(kind, id, name) == [kind |-> kind, id |-> id, name |-> name]
Text(label)     == Block("text", label, "")
Thinking        == Block("thinking", 0, "")
Image           == Block("image", 0, "")
LinkedDocument  == Block("document by url", 0, "")
Call(id, name)  == Block("call", id, name)
Result(id)      == Block("result", id, "")
Msg(role, parts) == [role |-> role, parts |-> parts]

Of(parts, kinds) == SelectSeq(parts, LAMBDA b : b.kind \in kinds)

\* what History keeps of a message
IdsOf(m, kind) == {m.parts[k].id : k \in {j \in DOMAIN m.parts : m.parts[j].kind = kind}}
Brief(m)       == [role |-> m.role, uses |-> IdsOf(m, "call"), results |-> IdsOf(m, "result")]
Reduced(msgs)  == [i \in DOMAIN msgs |-> Brief(msgs[i])]

(* AgentLoop sends these (ResultsFollowTheirCalls). Calls may have no results: the
   runner goes on with a user's message behind a truncated response. *)
WellFormed(msgs) == Paired(Reduced(msgs))

-------------------------------------------------------------------------------
(* Anthropic takes messages as they are; system messages are left out. *)
AnthropicMessages(msgs) == SelectSeq(msgs, LAMBDA m : m.role # "system")

\* Mutant: of a message's results the first becomes a tool message.
OneResult(parts) ==
    IF Of(parts, {"result"}) = <<>> THEN <<>> ELSE << Msg("tool", << Of(parts, {"result"})[1] >>) >>

(* A tool message for each result, and one user message for the rest; a document
   without data has no OpenAI form, and what is then empty is not sent. *)
OpenAiResults(parts) ==
    [k \in DOMAIN Of(parts, {"result"}) |-> Msg("tool", << Of(parts, {"result"})[k] >>)]
OpenAiUser(parts) ==
    OpenAiResults(parts)
    \o LET rest == Of(parts, {"text", "image"})
       IN IF rest = <<>> THEN <<>> ELSE << Msg("user", rest) >>

(* Text in front, then tool_calls; neither makes an empty message. *)
OpenAiAssistant(parts) == << Msg("assistant", Of(parts, {"text"}) \o Of(parts, {"call"})) >>

OpenAiMessages(msgs) ==
    FlattenSeq([i \in DOMAIN msgs |->
        CASE msgs[i].role = "user"      -> OpenAiUser(msgs[i].parts)
          [] msgs[i].role = "assistant" -> OpenAiAssistant(msgs[i].parts)
          [] msgs[i].role = "system"    -> << Msg("system", Of(msgs[i].parts, {"text"})) >>])

(* tool_name_map: of several calls with one id the last gives the name, and a
   result without a call is named by its id. *)
CallsOf(msgs) == Of(FlattenSeq([i \in DOMAIN msgs |-> msgs[i].parts]), {"call"})
NameOf(msgs, id) ==
    LET named == SelectSeq(CallsOf(msgs), LAMBDA b : b.id = id)
    IN IF named = <<>> THEN "an id" ELSE Last(named).name

(* Gemini has roles user and model, results by name, no place for thinking, and
   gets no message without parts. *)
GeminiPart(msgs, b) ==
    IF b.kind = "result" THEN [b EXCEPT !.name = NameOf(msgs, b.id)] ELSE b
GeminiParts(msgs, m) ==
    LET kept == Of(m.parts, IF m.role = "user"
                            THEN {"text", "image", "document by url", "result"}
                            ELSE {"text", "call"})
    IN [k \in DOMAIN kept |-> GeminiPart(msgs, kept[k])]
GeminiMessages(msgs) ==
    LET said == SelectSeq(msgs, LAMBDA m : m.role # "system" /\ GeminiParts(msgs, m) # <<>>)
    IN [i \in DOMAIN said |-> Msg(IF said[i].role = "user" THEN "user" ELSE "model",
                                  GeminiParts(msgs, said[i]))]

Messages(provider, msgs) ==
    CASE provider = "anthropic" -> AnthropicMessages(msgs)
      [] provider = "openai"    -> OpenAiMessages(msgs)
      [] provider = "gemini"    -> GeminiMessages(msgs)

-------------------------------------------------------------------------------
(* A name is a stem and the numbers appended to it; sanitize_name makes any other
   character an underscore. *)
Valid(name)         == name[1] # "a.b"
sanitize_name(name) == IF Valid(name) THEN name ELSE << "a_b" >> \o Tail(name)

\* Mutant: a name is numbered without looking whether that one is taken.
NextNumber(base, used) == IF base \in used THEN Append(base, 2) ELSE base

(* unique_name: the first of base, base_2, base_3, ... that is not taken. *)
unique_name(base, used) ==
    IF base \notin used THEN base
    ELSE Append(base, CHOOSE n \in 2..(Cardinality(used) + 2) :
                        /\ Append(base, n) \notin used
                        /\ \A m \in 2..(n - 1) : Append(base, m) \in used)

AdaptedNames(tools) ==
    FoldLeft(LAMBDA names, t : Append(names, unique_name(sanitize_name(t.name), ToSet(names))),
             <<>>, tools)

(* A schema is its definitions and a root. A node is a reference (type "ref"), or
   has a type, keywords, and nodes for its parameters. *)
Node(type, to, keys, params) == [type |-> type, to |-> to, keys |-> keys, params |-> params]
Anything == Node("any", None, {}, [p \in {} |-> None])
Stripped(provider) == {"$schema", "definitions"}
                      \cup IF provider = "gemini" THEN {"additionalProperties"} ELSE {}

\* Mutant: a reference is replaced by its target as it is written.
RECURSIVE rewrite_once(_, _, _, _)
rewrite_once(node, provider, defs, stack) ==
    IF node.type = "ref"
    THEN IF node.to \in DOMAIN defs THEN defs[node.to] ELSE Anything
    ELSE [node EXCEPT !.keys = @ \ Stripped(provider),
                      !.params = [p \in DOMAIN @ \ Stripped(provider) |->
                                    rewrite_once(@[p], provider, defs, stack)]]

(* rewrite: references are replaced by their targets, one that is being replaced
   already, or has no target, by the schema of anything. Keywords the provider
   refuses are dropped from every object, the one that lists the parameters too. *)
RECURSIVE rewrite(_, _, _, _)
rewrite(node, provider, defs, stack) ==
    IF node.type = "ref"
    THEN IF node.to \in DOMAIN defs \ stack
         THEN rewrite(defs[node.to], provider, defs, stack \cup {node.to})
         ELSE Anything
    ELSE [node EXCEPT !.keys = @ \ Stripped(provider),
                      !.params = [p \in DOMAIN @ \ Stripped(provider) |->
                                    rewrite(@[p], provider, defs, stack)]]

adapt_tools(provider, tools) ==
    [i \in DOMAIN tools |->
        [name |-> AdaptedNames(tools)[i],
         schema |-> rewrite(tools[i].schema.root, provider, tools[i].schema.defs, {})]]

-------------------------------------------------------------------------------
VARIABLES request,  \* CompletionRequest
          provider,
          body      \* what is posted, empty until it is

vars == <<request, provider, body>>
Sent == DOMAIN body # {}

Init ==
    /\ provider \in Providers /\ body = <<>>
    /\ request \in Asked /\ WellFormed(request.messages)

Complete ==
    /\ ~Sent
    /\ body' = [messages |-> Messages(provider, request.messages),
                tools    |-> adapt_tools(provider, request.tools),
                options  |-> Options(provider, request.settings, request.tools)]
    /\ UNCHANGED <<request, provider>>

Posted == Sent /\ UNCHANGED vars
Next == Complete \/ Posted
Spec == Init /\ [][Next]_vars
-------------------------------------------------------------------------------
Wire == body.messages

(* The results directly behind message j: those of the next message, or of all the
   tool messages that follow. *)
Behind(w, j) ==
    LET tools == {k \in (j + 1)..Len(w) : \A i \in (j + 1)..k : w[i].role = "tool"}
        next  == IF tools = {} THEN (j + 1)..Min({j + 1, Len(w)}) ELSE tools
    IN Of(FlattenSeq([i \in 1..Cardinality(next) |-> w[j + i].parts]), {"result"})

(* The rounds of a conversation: the calls of a message with what answers them. *)
Rounds(w) ==
    LET asks == SelectSeq([j \in DOMAIN w |-> j], LAMBDA j : IdsOf(w[j], "call") # {})
    IN [n \in DOMAIN asks |-> [calls   |-> Of(w[asks[n]].parts, {"call"}),
                               answers |-> [k \in DOMAIN Behind(w, asks[n]) |-> Behind(w, asks[n])[k].id]]]

(* Each round is the same in the provider's format (openai.rs: results come out of
   their message; gemini.rs: empty messages are left out): a call is answered at once
   if it was, so that a complete conversation stays complete, and by nothing else. *)
CallsAreAnswered == Sent => Rounds(Wire) = Rounds(request.messages)

(* Nothing that has a form with the provider is left out, said twice or moved
   before something else of its kind. *)
Speaks == [anthropic |-> {"text", "image", "document by url", "thinking", "call", "result"},
           openai    |-> {"text", "image", "call", "result"},
           gemini    |-> {"text", "image", "document by url", "call", "result"}]
Ids(w, kind) ==
    LET blocks == Of(FlattenSeq([i \in DOMAIN w |-> w[i].parts]), {kind})
    IN [k \in DOMAIN blocks |-> blocks[k].id]
NothingIsLost ==
    Sent => \A kind \in Speaks[provider] :
        Ids(Wire, kind) =
            Ids(IF provider = "openai" THEN request.messages ELSE AnthropicMessages(request.messages), kind)

(* What has been sent once is sent again word for word in front of what is new:
   the provider's cache of the prefix, and the model's own past, depend on it. With
   Gemini this needs that an id names one tool. *)
OneNamePerId(msgs) ==
    \A k, l \in DOMAIN CallsOf(msgs) :
        CallsOf(msgs)[k].id = CallsOf(msgs)[l].id => CallsOf(msgs)[k].name = CallsOf(msgs)[l].name
PrefixIsKept ==
    Sent /\ (provider = "gemini" => OneNamePerId(request.messages)) =>
        \A n \in DOMAIN request.messages :
            IsPrefix(Messages(provider, SubSeq(request.messages, 1, n)), Wire)

(* No settings that the API refuses (LegalOptions, for every request: AgentLoopProof). *)
SettingsAreLegal ==
    Sent /\ provider = "anthropic" => LegalOptions(request.settings, request.tools, body.options)

(* Every tool has a name of its own that the provider takes, and the one the agent
   dispatches by if the names were fit to begin with. *)
ToolsKeepTheirNames ==
    Sent => LET raw == [i \in DOMAIN request.tools |-> request.tools[i].name]
                out == [i \in DOMAIN body.tools |-> body.tools[i].name] IN
        /\ DOMAIN out = DOMAIN raw /\ IsInjective(out) /\ \A i \in DOMAIN out : Valid(out[i])
        /\ IsInjective(raw) /\ (\A i \in DOMAIN raw : Valid(raw[i])) => out = raw

(* The type a schema gives to what is found along a path of parameters, and the
   definitions passed on the way. *)
RECURSIVE Followed(_, _, _)
Followed(node, defs, seen) ==
    IF node.type # "ref" THEN [node |-> node, seen |-> seen]
    ELSE IF node.to \notin DOMAIN defs \/ Len(seen) > Cardinality(DOMAIN defs)
         THEN [node |-> Anything, seen |-> seen]
         ELSE Followed(defs[node.to], defs, Append(seen, node.to))
RECURSIVE Along(_, _, _, _)
Along(node, defs, path, seen) ==
    LET here == Followed(node, defs, seen) IN
    IF path = <<>> THEN [type |-> here.node.type, keys |-> here.node.keys, seen |-> here.seen]
    ELSE IF Head(path) \notin DOMAIN here.node.params
         THEN [type |-> "absent", keys |-> {}, seen |-> here.seen]
         ELSE Along(here.node.params[Head(path)], defs, Tail(path), here.seen)

Params(tool) == LET nodes == {tool.schema.root} \cup {tool.schema.defs[d] : d \in DOMAIN tool.schema.defs}
                IN UNION {DOMAIN n.params : n \in nodes}
Paths(tool)  == UNION {[1..n -> Params(tool)] : n \in 0..3}

(* A schema without references describes what the tool's schema does, as far as no
   definition contains itself, and has nothing in it that the provider refuses. *)
SchemasMeanTheSame ==
    Sent => \A i \in DOMAIN body.tools : \A path \in Paths(request.tools[i]) :
        LET was == Along(request.tools[i].schema.root, request.tools[i].schema.defs, path, <<>>)
            is  == Along(body.tools[i].schema, [d \in {} |-> None], path, <<>>)
        IN /\ IsInjective(was.seen) => is.type = was.type
           /\ is.keys = was.keys \ Stripped(provider) \/ ~IsInjective(was.seen)
           /\ is.keys \cap Stripped(provider) = {}

(* What is posted is the conversation the agent meant: every call with the answers it
   has, nothing lost, the past unchanged, no settings the API refuses, and tools under
   their own names with the schemas they have. Whether a provider takes a call nobody
   answered, or two messages of one role in a row, is not said: the conversation may
   have both before any of this begins. *)
RequestsAreFaithful ==
    /\ CallsAreAnswered /\ NothingIsLost /\ PrefixIsKept
    /\ SettingsAreLegal /\ ToolsKeepTheirNames /\ SchemasMeanTheSame

(* What does not hold *)

(* Gemini: a conversation whose roles alternate is sent so. A message of nothing but
   thinking is left out, and its neighbours meet. *)
Alternate(w) == \A j \in 2..Len(w) : w[j].role # w[j - 1].role
RolesAlternate ==
    Sent /\ provider = "gemini" /\ Alternate(request.messages) => Alternate(Wire)

(* Gemini: a result goes by the name of the call it answers. *)
ResultsNameTheirCalls ==
    Sent /\ provider = "gemini" =>
        \A j \in DOMAIN Wire : \A k \in DOMAIN Wire[j].parts :
            Wire[j].parts[k].kind = "result" =>
                \E l \in DOMAIN Wire[j - 1].parts :
                    /\ Wire[j - 1].parts[l].kind = "call"
                    /\ Wire[j - 1].parts[l].id = Wire[j].parts[k].id
                    /\ Wire[j - 1].parts[l].name = Wire[j].parts[k].name
=================================================================================
