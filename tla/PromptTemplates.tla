--------------------------- MODULE PromptTemplates ---------------------------
(***************************************************************************)
(* chat/template.rs, and the way a service comes to its template and its   *)
(* prompt.  A prompt is a sequence of pieces: markers, roles and contents. *)
(* A service has a model and the template it was set up with.              *)
(***************************************************************************)
EXTENDS Integers, Sequences, SequencesExt

None == <<>>
Some(v) == <<v>>
Or(option, other) == IF option # None THEN option ELSE other
UnwrapOr(option, v) == IF option # None THEN option[1] ELSE v

Ok(v) == [ok |-> TRUE, value |-> v]
Err(what) == [ok |-> FALSE, value |-> what]

User(content) == [role |-> "user", content |-> content]
PerMessage(Format(_), messages) == FoldLeft(LAMBDA prompt, m : prompt \o Format(m), <<>>, messages)
When(condition, pieces) == IF condition THEN pieces ELSE <<>>

----------------------------------------------------------------------------
(* Templates *)

FormatRaw(messages) == [i \in DOMAIN messages |-> messages[i].content]

FormatChatml(messages, generate) ==
  PerMessage(LAMBDA m : <<"im_start", m.role, m.content, "im_end">>, messages)
  \o When(generate, <<"im_start", "assistant">>)

FormatLlama3(messages, generate) ==
  <<"begin_of_text">>
  \o PerMessage(LAMBDA m : <<"start_header", m.role, "end_header", m.content, "eot">>, messages)
  \o When(generate, <<"start_header", "assistant", "end_header">>)

FormatDeepseek(messages, generate) ==
  PerMessage(LAMBDA m : CASE m.role = "system" -> <<"begin_of_sentence", m.content>>
                          [] m.role = "user" -> <<"User", m.content>>
                          [] OTHER -> <<"Assistant", m.content, "end_of_sentence">>, messages)
  \o When(generate, <<"Assistant">>)

FormatPhi(messages, generate) ==
  PerMessage(LAMBDA m : <<"<|", m.role, "|>", m.content, "end">>, messages)
  \o When(generate, <<"<|", "assistant", "|>">>)

\* Mutant of FormatGemma: the system message is not taken, every question has it.
FormatGemmaSystemStays(messages, generate) ==
  FoldLeft(LAMBDA acc, m :
             CASE m.role = "system" -> [acc EXCEPT !.system = Some(m.content)]
               [] m.role = "user" ->
                    [acc EXCEPT !.prompt = @ \o <<"turn", "user">> \o acc.system \o <<m.content, "end_turn">>]
               [] OTHER -> [acc EXCEPT !.prompt = @ \o <<"turn", "model", m.content, "end_turn">>],
           [prompt |-> <<>>, system |-> None], messages).prompt
  \o When(generate, <<"turn", "model">>)

\* A system message waits for the next question; another one before takes its place.
FormatGemma(messages, generate) ==
  FoldLeft(LAMBDA acc, m :
             CASE m.role = "system" -> [acc EXCEPT !.system = Some(m.content)]
               [] m.role = "user" ->
                    [prompt |-> acc.prompt \o <<"turn", "user">> \o acc.system \o <<m.content, "end_turn">>,
                     system |-> None]
               [] OTHER -> [acc EXCEPT !.prompt = @ \o <<"turn", "model", m.content, "end_turn">>],
           [prompt |-> <<>>, system |-> None], messages).prompt
  \o When(generate, <<"turn", "model">>)

FormatCommandR(messages, generate) ==
  LET token(role) == CASE role = "system" -> "SYSTEM_TOKEN"
                       [] role = "user" -> "USER_TOKEN"
                       [] OTHER -> "CHATBOT_TOKEN"
  IN PerMessage(LAMBDA m : <<"START_OF_TURN", token(m.role), m.content, "END_OF_TURN">>, messages)
     \o When(generate, <<"START_OF_TURN", "CHATBOT_TOKEN">>)

\* ChatTemplate::format; a template that is a text needs the engine.
Format(template, messages, generate) ==
  CASE template = "Raw" -> Ok(FormatRaw(messages))
    [] template \in {"ChatML", "Auto"} -> Ok(FormatChatml(messages, generate))
    [] template = "Llama3" -> Ok(FormatLlama3(messages, generate))
    [] template = "DeepSeek" -> Ok(FormatDeepseek(messages, generate))
    [] template = "Phi" -> Ok(FormatPhi(messages, generate))
    [] template = "Gemma" -> Ok(FormatGemma(messages, generate))
    [] template = "CommandR" -> Ok(FormatCommandR(messages, generate))
    [] template = "Custom" -> Err("needs the engine")

----------------------------------------------------------------------------
(* The template of a service *)

Chatml == {"mistral", "phi", "phi3", "phi4", "qwen2", "qwen2.5", "command-r", "c4ai", "falcon",
           "starcoder", "starcoder2", "stablelm", "stablelm2", "grok-1", "dbrx", "exaone", "orion",
           "olmo", "olmoe", "arctic", "granite", "granite-3", "nemotron", "nemotron3", "nemotron4",
           "minicpm", "minicpm3", "mamba", "mamba2", "cohere", "cohere2", "bitnet", "jamba", "t5",
           "t5encoder", "openelm", "chameleon"}

\* infer_chat_template: the template of the file, or one its architecture is known for.
InferChatTemplate(meta) ==
  LET architecture == UnwrapOr(meta.architecture, "") IN
  IF meta.chat_template \notin {None, Some("")} THEN meta.chat_template
  ELSE CASE architecture \in {"llama", "codellama"} -> Some("llama3")
         [] architecture \in {"gemma", "gemma2"} -> Some("gemma")
         [] architecture \in {"deepseek", "deepseek2", "deepseek3"} -> Some("deepseek")
         [] architecture = "chatglm" -> Some("chatglm3")
         [] architecture \in Chatml -> Some("chatml")
         [] OTHER -> None

\* LlamaModel::chat_template: the template of that name in the file, None the default one.
ModelTemplate(model, name) == IF name = None THEN model.default ELSE
  IF name[1] \in DOMAIN model.named THEN Some(model.named[name[1]]) ELSE None

\* LlamaService::new, once the model and its context are there.
ServiceTemplate(config, model) ==
  UnwrapOr(Or(config.chat_template, Or(model.default, InferChatTemplate(model.meta))), "chatml")

TemplateName == [ChatML |-> "chatml", Llama3 |-> "llama3", DeepSeek |-> "deepseek",
                 Phi |-> "phi3", Gemma |-> "gemma", CommandR |-> "command-r"]

\* apply_chat_template: the engine is asked for the length, then for the text.
ApplyChatTemplate(template, messages, engine) ==
  IF template \notin engine.knows THEN Err("template")
  ELSE Ok(<<template>> \o PerMessage(LAMBDA m : <<m.role, m.content>>, messages) \o <<"assistant">>)

\* "Ultimate fallback: simple concatenation"
PlainPrompt(messages) ==
  PerMessage(LAMBDA m : <<"<|", m.role, "|>", m.content>>, messages) \o <<"<|", "assistant", "|>">>

\* Mutant of FormatPrompt: the question is left to the messages.
FormatPromptOfMessages(service, text, template, messages, engine) ==
  LET named == CASE template = "Auto" -> Or(ModelTemplate(service.model, Some(service.chat_template)),
                                            ModelTemplate(service.model, None))
                 [] template = "Custom" -> Some("custom")
                 [] OTHER -> ModelTemplate(service.model, Some(TemplateName[template]))
      found == Or(named, ModelTemplate(service.model, Some("chatml")))
  IN IF found # None THEN ApplyChatTemplate(found[1], messages, engine) ELSE Ok(PlainPrompt(messages))

\* format_prompt
FormatPrompt(service, text, template, messages, engine) ==
  LET chat == Append(messages, User(text))
      named == CASE template = "Auto" -> Or(ModelTemplate(service.model, Some(service.chat_template)),
                                            ModelTemplate(service.model, None))
                 [] template = "Custom" -> Some("custom")
                 [] OTHER -> ModelTemplate(service.model, Some(TemplateName[template]))
      found == Or(named, ModelTemplate(service.model, Some("chatml")))
  IN IF template = "Raw" THEN Ok(<<text>>)
     ELSE IF found # None THEN ApplyChatTemplate(found[1], chat, engine)
     ELSE Ok(PlainPrompt(chat))
=============================================================================
