----------------------------- MODULE VlmHandle ------------------------------
(* The multimodal handle of the llama.cpp plugin (vlm.cpp): where its two  *)
(* models are placed, how the markers of a prompt are matched with the     *)
(* files of a request, and what its cache holds.  A prompt is the sequence *)
(* of its media markers; text between them is one count of tokens.         *)
EXTENDS Integers, Sequences, SequencesExt, FiniteSetsExt

CONSTANTS Image, Audio,       \* files the caller passes as one or the other
          Unreadable, Broken, \* files that cannot be opened, or decoded
          Video, Swapped,     \* files that hold a video, or the other kind
          Cells,              \* per file: the cache cells it takes, and the
          Positions,          \*   positions, fewer of them with M-RoPE
          TextTokens,         \* tokens of the text of any prompt
          Window,             \* n_ctx
          MaxTokens,          \* max_tokens
          MaxMedia            \* bound: media of a request

File == Image \cup Audio

VlmAssumption ==
  /\ Image \cap Audio = {}
  /\ Unreadable \cup Broken \cup Video \cup Swapped \subseteq File
  /\ Cells \in [File -> Nat] /\ Positions \in [File -> Nat]
  /\ \A f \in File : Positions[f] <= Cells[f]
  /\ MaxMedia \in Nat
  /\ {TextTokens, Window, MaxTokens} \subseteq Nat \ {0}

VARIABLES phase,      \* closed, idle, ordered, loaded, decoding
          placed,     \* where the text model and the projector run
          sees,       \* what the projector supports
          memory,     \* cells and positions in the KV cache
          nPast,      \* n_past_
          prompt,     \* the markers of the request's prompt, tagged or not
          meant,      \* history: the files its markers stand for
          images, audios,  \* image_paths and audio_paths
          bound,      \* bitmaps, in marker order
          generated,  \* tokens of the reply
          code        \* what the last call returned, or why the reply ended

vars == <<phase, placed, sees, memory, nPast, prompt, meant, images, audios,
          bound, generated, code>>
handle == <<placed, sees>>
request == <<prompt, meant, images, audios>>

-----------------------------------------------------------------------------
Tag == {"image", "audio", "generic"}
KindOf(f) == IF f \in Image THEN "image" ELSE "audio"

(* The files of one kind, in their order.                                  *)
Of(kind, files) ==
  LET found[n \in 0..Len(files)] ==
        IF n = 0 THEN <<>>
        ELSE IF KindOf(files[n]) = kind THEN Append(found[n - 1], files[n])
        ELSE found[n - 1]
  IN  found[Len(files)]

Count(kind, tags) == Cardinality({i \in DOMAIN tags : tags[i] = kind})

Empty == [cells |-> 0, positions |-> 0]

SumOver(files, size) == FoldLeft(LAMBDA sum, f : sum + size[f], 0, files)
PromptCells == TextTokens + SumOver(bound, Cells)
PromptPositions == TextTokens + SumOver(bound, Positions)

Init ==
  /\ phase = "closed" /\ placed = <<>> /\ sees = {}
  /\ memory = Empty /\ nPast = 0
  /\ prompt = <<>> /\ meant = <<>> /\ images = <<>> /\ audios = <<>>
  /\ bound = <<>> /\ generated = 0 /\ code = "none"

(* Where the projector may run: beside the text model, or on the CPU.      *)
ProjectorPlaces(asked, text) == {text, "cpu"}

(* create(): a context that fails on a default accelerator is tried again  *)
(* on the CPU, and so is the projector.                                    *)
Create ==
  /\ phase = "closed"
  /\ \E asked \in {"gpu", "cpu"}, text \in {"gpu", "cpu"}, able \in SUBSET {"image", "audio"} :
       /\ asked = "cpu" => text = "cpu"
       /\ able # {}
       /\ \E projector \in ProjectorPlaces(asked, text) : placed' = <<text, projector>>
       /\ sees' = able
  /\ phase' = "idle" /\ code' = "ok"
  /\ UNCHANGED <<memory, nPast, request, bound, generated>>

Reset ==
  /\ phase = "idle"
  /\ memory' = Empty /\ nPast' = 0
  /\ UNCHANGED <<phase, handle, request, bound, generated, code>>

(* apply_chat_template(): each item of a message becomes a tagged marker.  *)
Template(items) ==
  /\ phase = "idle" /\ code # "formatted"
  /\ \A i \in DOMAIN items : KindOf(items[i]) \in sees
  /\ prompt' = [i \in DOMAIN items |-> KindOf(items[i])]
  /\ meant' = items
  /\ images' = Of("image", items) /\ audios' = Of("audio", items)
  /\ code' = "formatted"
  /\ UNCHANGED <<phase, handle, memory, nPast, bound, generated>>

TemplateRefused(items) ==
  /\ phase = "idle" /\ code # "formatted"
  /\ \E i \in DOMAIN items : KindOf(items[i]) \notin sees
  /\ code' = "not_supported"
  /\ UNCHANGED <<phase, handle, memory, nPast, request, bound, generated>>

(* A caller that writes its own prompt.                                    *)
HandWritten(pictures, sounds, tags) ==
  /\ phase = "idle" /\ code # "formatted"
  /\ prompt' = tags
  /\ images' = pictures /\ audios' = sounds
  /\ meant' = pictures \o sounds
  /\ code' = "formatted"
  /\ UNCHANGED <<phase, handle, memory, nPast, bound, generated>>

(* Every request starts from an empty cache.                               *)
StartOver == memory' = Empty /\ nPast' = 0

(* The markers generate() works with: without any, one for each file.      *)
Markers ==
  IF prompt = <<>> THEN [i \in 1..(Len(images) + Len(audios)) |-> "generic"] ELSE prompt

(* The kinds of the files in marker order: by tag, or images first.        *)
MediaOrder ==
  IF Count("generic", Markers) = Len(Markers)
    THEN [i \in 1..Len(images) |-> "image"] \o [i \in 1..Len(audios) |-> "audio"]
    ELSE Markers

Fits ==
  /\ Len(images) > 0 => "image" \in sees
  /\ Len(audios) > 0 => "audio" \in sees
  /\ Len(Markers) = Len(images) + Len(audios)
  /\ Count("generic", Markers) \in {0, Len(Markers)}
  /\ Count("image", MediaOrder) = Len(images)

(* The call returns: the bitmaps are freed, and the caller's request ends. *)
Return(why) ==
  /\ phase' = "idle" /\ code' = why
  /\ prompt' = <<>> /\ meant' = <<>> /\ images' = <<>> /\ audios' = <<>>
  /\ bound' = <<>> /\ generated' = 0
  /\ UNCHANGED handle

(* The request's options are refused before the cache is touched: n_past,  *)
(* a sliding window, an empty path.                                        *)
AskRefused ==
  /\ phase = "idle" /\ code = "formatted"
  /\ Return("not_supported") /\ UNCHANGED <<memory, nPast>>

Ask ==
  /\ phase = "idle" /\ code = "formatted"
  /\ StartOver
  /\ IF Fits THEN phase' = "ordered" /\ code' = "none"
                  /\ UNCHANGED <<handle, request, bound, generated>>
             ELSE Return("invalid_input")

(* A fault: files are taken in the order images, then audios.              *)
NextFileInOrder == (images \o audios)[Len(bound) + 1]

(* image_index and audio_index: how many markers so far were of a kind.    *)
Taken(kind) == Cardinality({i \in 1..Len(bound) : MediaOrder[i] = kind})

(* The file that the next marker takes: the first of its kind not taken.   *)
NextFile ==
  IF MediaOrder[Len(bound) + 1] = "image" THEN images[Taken("image") + 1]
                                          ELSE audios[Taken("audio") + 1]

(* A file is opened, decoded and found to be of its kind, or the call      *)
(* fails.                                                                  *)
LoadNext ==
  /\ phase = "ordered" /\ Len(bound) < Len(MediaOrder)
  /\ IF NextFile \in Unreadable \cup Broken \cup Video \cup Swapped
       THEN Return("media")
       ELSE bound' = Append(bound, NextFile)
            /\ UNCHANGED <<phase, code, handle, request, generated>>
  /\ UNCHANGED <<memory, nPast>>

(* Tokenized, and measured against the window; the sampler may be refused. *)
Tokenize ==
  /\ phase = "ordered" /\ Len(bound) = Len(MediaOrder)
  /\ UNCHANGED <<memory, nPast>>
  /\ \/ PromptPositions > Window /\ Return("context_length_error")
     \/ Return("invalid_input")
     \/ PromptPositions <= Window /\ phase' = "loaded"
        /\ UNCHANGED <<code, handle, request, bound, generated>>

(* mtmd_helper_eval_chunks() put the whole prompt into the cache.          *)
Evaluate ==
  /\ phase = "loaded" /\ PromptCells <= Window
  /\ memory' = [cells     |-> memory.cells + PromptCells,
                positions |-> memory.positions + PromptPositions]
  /\ nPast' = PromptPositions
  /\ phase' = "decoding"
  /\ UNCHANGED <<handle, request, bound, generated, code>>

(* A fault: the chunks that were evaluated stay in the cache.              *)
EvaluateFailsDirty ==
  /\ phase = "loaded"
  /\ \E n \in 1..PromptPositions : memory' = [cells |-> n, positions |-> n]
  /\ nPast' = 0
  /\ Return("failed")

(* It did not, whatever part of it was done: the cache is cleared.         *)
EvaluateFails ==
  /\ phase = "loaded"
  /\ memory' = Empty /\ nPast' = 0
  /\ Return(IF PromptCells > Window THEN "context_length_error" ELSE "failed")

WindowFull ==
  /\ phase = "decoding" /\ nPast >= Window
  /\ Return("context_length") /\ UNCHANGED <<memory, nPast>>

(* End of generation, or a token that cannot be picked or decoded.         *)
Ends ==
  /\ phase = "decoding" /\ nPast < Window
  /\ \E why \in {"eos", "failed"} : Return(why)
  /\ UNCHANGED <<memory, nPast>>

(* decode_token() finds no cell.                                           *)
NoCell ==
  /\ phase = "decoding" /\ nPast < Window /\ memory.cells >= Window
  /\ Return("out_of_cells") /\ UNCHANGED <<memory, nPast>>

(* A token is decoded; the budget, a stop or the caller may end the reply. *)
DecodeToken ==
  /\ phase = "decoding" /\ nPast < Window /\ memory.cells < Window
  /\ memory' = [cells |-> memory.cells + 1, positions |-> memory.positions + 1]
  /\ nPast' = nPast + 1
  /\ \/ /\ generated + 1 < MaxTokens /\ generated' = generated + 1
        /\ UNCHANGED <<phase, code, handle, request, bound>>
     \/ generated + 1 = MaxTokens /\ Return("length")
     \/ Return("stopped")

Next ==
  \/ Create \/ Reset
  \/ \E items \in BoundedSeq(File, MaxMedia) : Template(items) \/ TemplateRefused(items)
  \/ \E pictures \in BoundedSeq(Image, 1), sounds \in BoundedSeq(Audio, 1),
        tags \in BoundedSeq(Tag, MaxMedia) : HandWritten(pictures, sounds, tags)
  \/ Ask \/ AskRefused \/ LoadNext \/ Tokenize \/ Evaluate \/ EvaluateFails
  \/ WindowFull \/ Ends \/ NoCell \/ DecodeToken

Spec == Init /\ [][Next]_vars

-----------------------------------------------------------------------------
TypeOK ==
  /\ phase \in {"closed", "idle", "ordered", "loaded", "decoding"}
  /\ placed = <<>> \/ placed \in {"gpu", "cpu"} \X {"gpu", "cpu"}
  /\ sees \subseteq {"image", "audio"}
  /\ memory.cells \in 0..Window /\ memory.positions \in 0..Window
  /\ nPast \in 0..Window
  /\ prompt \in Seq(Tag) /\ {meant, images, audios, bound} \subseteq Seq(File)
  /\ generated \in 0..MaxTokens

(* vlm.cpp:38-42: whatever order images and audios have in a conversation, *)
(* each marker of its prompt is given the file that the message had there, *)
(* though the request carries the two kinds in separate arrays.            *)
MediaMeetMarkers ==
  phase \in {"loaded", "decoding"} /\ prompt = [i \in DOMAIN meant |-> KindOf(meant[i])]
    => bound = meant

(* n_past_ is the number of positions the cache holds, through failures at *)
(* any point of a request.                                                 *)
PositionMirrorsMemory == nPast = memory.positions

(* A reply is conditioned on its own request: nothing of an earlier one,   *)
(* finished or failed, is left in the cache when it is decoded.            *)
OnlyThisRequest ==
  phase = "decoding" =>
    memory = [cells     |-> PromptCells + generated,
              positions |-> PromptPositions + generated]

(* vlm.cpp:197-228: the projector is on the accelerator only if the text   *)
(* model is.                                                               *)
ProjectorBesideText == placed # <<>> /\ placed[2] = "gpu" => placed[1] = "gpu"

=============================================================================
