-------------------------------- MODULE Media --------------------------------
(***************************************************************************)
(* The content blocks of one message in a request: what each projection    *)
(* makes of text, images and documents, given what the model can view and  *)
(* what can be read of an attachment at that moment.  A model name is      *)
(* represented by the pattern of capabilities.py it matches.               *)
(***************************************************************************)
EXTENDS Naturals, Sequences, FiniteSets

\* A text is empty, plain, or carried: as it came from one of the providers.
Carried    == {"anthropic", "openai", "gemini"}
MediaTypes == {"image", "document"}
Sources    == {"base64", "ref", "url"}
Blocks == [type : {"text"}, source : {"empty", "plain"} \cup Carried]
          \cup [type : MediaTypes, source : Sources]

\* capabilities.defaults; a model no pattern matches views nothing.
Defaults(kind, model) ==
  CASE kind \in {"anthropic", "mock"} /\ model = "claude-3-5" -> {"image", "document"}
    [] kind \in {"anthropic", "mock"} /\ model = "claude-"    -> {"image"}
    [] kind = "openai" /\ model = "gpt-4o"                    -> {"image"}
    [] kind = "gemini" /\ model = "gemini-1.0"                -> {"image"}
    [] kind = "gemini" /\ model = "gemini-"                   -> {"image", "document"}
    [] OTHER -> {}
Models ==
  {"anthropic", "mock"} \X {"claude-2", "claude-3-5", "claude-", "other"}
  \cup {"openai"} \X {"gpt-4o", "other"} \cup {"ollama"} \X {"other"}
  \cup {"gemini"} \X {"gemini-1.0", "gemini-", "other"}

\* A message is the user's or the assistant's; alone, if its request has no other
\* of its role beside it, with which Anthropic would group it.
Settings == [role : {"user", "assistant"}, alone : BOOLEAN]

\* A configured provider (its capabilities override the defaults), and what of
\* attachments can be read: by a store that has them, by their URL.
Configurations ==
  [model : Models, capabilities : [MediaTypes -> {"unset", "yes", "no"}],
   mismatch : {"error", "metadata_fallback"}, stored : BOOLEAN, reachable : BOOLEAN]

\* manifest.projection_for.
ProjectionFor(kind) ==
  CASE kind = "mock" -> "anthropic" [] kind = "ollama" -> "openai" [] OTHER -> kind

\* Mutant: an override can only add to the defaults.
SupportedToo(c, type) ==
  c.capabilities[type] = "yes" \/ type \in Defaults(c.model[1], c.model[2])
Supported(c, type) ==
  \/ c.capabilities[type] = "yes"
  \/ c.capabilities[type] = "unset" /\ type \in Defaults(c.model[1], c.model[2])

\* content_blocks.resolve_data reads the bytes, or raises.
Resolves(c, block) ==
  CASE block.source = "ref" -> c.stored [] block.source = "url" -> c.reachable [] OTHER -> TRUE

\* Gemini leaves empty texts out, Anthropic those of the assistant.
Text(projection, place, block) ==
  CASE block.source = projection -> "wire"
    [] block.source = "empty" /\ projection = "gemini" -> "none"
    [] block.source = "empty" /\ projection = "anthropic" /\ place.role = "assistant" -> "none"
    [] OTHER -> "text"

\* _fallback_if_unsupported: the note names the attachment's size, so that it
\* has to be read for that too.
Fallback(c, block) ==
  IF c.mismatch = "error" THEN "mismatch" ELSE IF Resolves(c, block) THEN "note" ELSE "raise"

\* Only Gemini needs the bytes behind an image's URL.
Media(c, projection, block) ==
  CASE projection = "openai" /\ block.type = "document" -> "raise"
    [] projection # "gemini" /\ block.type = "image" /\ block.source = "url" -> "url"
    [] OTHER -> IF Resolves(c, block) THEN "data" ELSE "raise"

Render(c, place, block) ==
  LET projection == ProjectionFor(c.model[1]) IN
  IF block.type = "text" THEN Text(projection, place, block)
  ELSE IF Supported(c, block.type) THEN Media(c, projection, block) ELSE Fallback(c, block)

\* A single text becomes a plain string: OpenAI's of a message, Anthropic's of
\* all that is grouped.
Flattened(projection, place, rendered) ==
  \/ projection = "openai" /\ Cardinality(DOMAIN rendered) = 1
  \/ /\ projection = "anthropic" /\ place.alone
     /\ Cardinality({n \in DOMAIN rendered : rendered[n] # "none"}) = 1

\* The blocks in order, of which "none" puts nothing in the request; the first
\* that cannot be rendered ends the projection.
Failures == {"mismatch", "raise"}
Content(c, place, blocks) ==
  LET rendered == [n \in DOMAIN blocks |-> Render(c, place, blocks[n])]
      failed   == {n \in DOMAIN blocks : rendered[n] \in Failures}
      flat     == Flattened(ProjectionFor(c.model[1]), place, rendered)
  IN  IF failed # {} THEN <<rendered[CHOOSE n \in failed : \A m \in failed : n <= m]>>
      ELSE [n \in DOMAIN blocks |-> IF flat /\ rendered[n] = "wire" THEN "text" ELSE rendered[n]]

-----------------------------------------------------------------------------
Attachments(blocks) == {n \in DOMAIN blocks : blocks[n].type # "text"}
Contents == UNION {[1..n -> Blocks] : n \in 0..2}

\* The reference: the capabilities of the manifest, and else of the model.
Views(c, type) ==
  CASE c.capabilities[type] = "yes" -> TRUE [] c.capabilities[type] = "no" -> FALSE
    [] OTHER -> type \in Defaults(c.model[1], c.model[2])

\* Only one block of the message, or group, is sent.
Single(c, place, blocks) ==
  LET empty == {n \in DOMAIN blocks : blocks[n].source = "empty"} IN
  CASE c.model[1] \in {"openai", "ollama"} -> Cardinality(DOMAIN blocks) = 1
    [] c.model[1] \in {"anthropic", "mock"} ->
         /\ place.alone
         /\ Cardinality(DOMAIN blocks \ IF place.role = "user" THEN {} ELSE empty) = 1
    [] OTHER -> FALSE

\* One content under one configuration: a block for each attachment, a note
\* exactly for those the model cannot view, or a failure with its reason.
Reached(c, place, blocks) ==
  LET content == Content(c, place, blocks)
      Count(how) == Cardinality({n \in DOMAIN content : content[n] \in how})
      unseen == {n \in Attachments(blocks) : ~Views(c, blocks[n].type)}
      own    == {n \in DOMAIN blocks : blocks[n].source = ProjectionFor(c.model[1])}
  IN
  IF Count(Failures) = 0
  THEN /\ Count({"note"}) = Cardinality(unseen)
       /\ Count({"url", "data"}) = Cardinality(Attachments(blocks) \ unseen)
       /\ Count({"wire"}) = IF Single(c, place, blocks) THEN 0 ELSE Cardinality(own)
       /\ c.mismatch = "error" => unseen = {}
  ELSE \/ content = <<"mismatch">> /\ c.mismatch = "error" /\ unseen # {}
       \/ /\ content = <<"raise">>
          /\ \E n \in Attachments(blocks) :
               \/ ~Resolves(c, blocks[n])
               \/ ProjectionFor(c.model[1]) = "openai" /\ blocks[n].type = "document"
                  /\ c.capabilities["document"] = "yes"

\* Nothing a user attached is dropped, and nothing is sent to a model that
\* cannot view it: a request has one block for each attachment, a note exactly
\* for those the model cannot view, unless it is refused as a mismatch, which
\* has to be asked for, or an attachment cannot be read.  What a provider sent
\* is given back as it was to that provider only, and not when it is a single
\* text, which OpenAI and Anthropic are given as a string.
AttachmentsReach ==
  \A c \in Configurations, place \in Settings, blocks \in Contents : Reached(c, place, blocks)
=============================================================================
