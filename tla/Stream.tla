-------------------------------- MODULE Stream --------------------------------
(***************************************************************************)
(* A server-sent event stream from the bytes on the wire to the screen:    *)
(* the parser of lib/api.ts (streamInference, streamAiChat) with its two   *)
(* single-stream readers, the prompt playground of the inference tab       *)
(* (LiveInferencePlayground) and the assistant (AiChatPanel).  `reader'    *)
(* says which of them a behaviour follows.                                 *)
(*                                                                         *)
(* The wire is a sequence of lines' contents and line ends, which arrive   *)
(* in chunks cut anywhere, between a CR and its LF too.  All blocks of a   *)
(* chunk are handled before the browser handles another event.             *)
(***************************************************************************)
EXTENDS Integers, Sequences, FiniteSets, SequencesExt

CONSTANT MaxReply  \* bound: tokens and pings of a reply

ASSUME StreamAssumption == MaxReply \in Nat

VARIABLES
  reader,
  script,     \* the events the API sends on this stream
  read,       \* characters read of it
  buffer,
  open,       \* the stream is being read
  status,     \* idle, prefill, decoding (for the assistant: streaming), done
  generated,  \* generatedTokens
  words,      \* outputWords, or the tokens in the last message
  failed      \* oomError, or error

streamVars == <<reader, script, read, buffer, open, status, generated, words, failed>>

Replies == SeqOf({"token", "ping"}, MaxReply)

PromptScripts == {<<"error">>} \cup {<<"start", "ttft">> \o t \o <<"done">> : t \in Replies}
ChatScripts == {t \o <<e>> : t \in Replies, e \in {"error", "done"}}

-----------------------------------------------------------------------------
(* The wire.  An event is its name, its data and a blank line; a ping is a *)
(* comment without data.  The data of a token has its index.               *)
Char(c, n) == [char |-> c, of |-> n]
CR == Char("CR", 0)
LF == Char("LF", 0)

Tokens(k) == Cardinality({j \in 1 .. k : script[j] = "token"})

Block(k) ==
  IF script[k] = "ping" THEN <<Char("ping", 0), CR, LF, CR, LF>>
  ELSE <<Char(script[k], 0), CR, LF, Char("data", Tokens(k)), CR, LF, CR, LF>>

Text(k) == FlattenSeq([j \in 1 .. k |-> Block(j)])

Wire == Text(Len(script))

(* replace(/\r\n/g, "\n")                                                  *)
LineEnds(text) ==
  FoldLeft(LAMBDA t, c : IF c = LF /\ t # <<>> /\ Last(t) = CR THEN Append(Front(t), LF) ELSE Append(t, c),
           <<>>, text)

(* Mutant: each chunk is normalized by itself.                             *)
Received_PerChunk(chunk) == buffer \o LineEnds(chunk)

Received(chunk) == LineEnds(buffer \o chunk)

BlockEnds == {i \in 1 .. Len(buffer) - 1 : buffer[i] = LF /\ buffer[i + 1] = LF}

(* The browser has nothing left to handle of what has arrived.             *)
Quiet == BlockEnds = {}

-----------------------------------------------------------------------------
(* What the two readers do with an event; the assistant shows tokens and   *)
(* errors.                                                                 *)
Handle(event, n) ==
  /\ status' = IF reader = "chat" THEN status
               ELSE CASE event = "ttft" -> "decoding"
                      [] event = "done" -> "done"
                      [] event = "error" -> "idle"
                      [] OTHER -> status
  /\ words' = IF event = "token" THEN words + 1 ELSE words
  /\ generated' = IF event = "token" /\ reader = "prompt" THEN n ELSE generated
  /\ failed' = (failed \/ event = "error")

ReadChunk ==
  /\ open /\ Quiet
  /\ \E n \in read + 1 .. Len(Wire) :
       /\ buffer' = Received(SubSeq(Wire, read + 1, n))
       /\ read' = n
  /\ UNCHANGED <<reader, script, open, status, generated, words, failed>>

TakeBlock ==
  /\ open /\ ~Quiet
  /\ LET end == CHOOSE i \in BlockEnds : \A j \in BlockEnds : i <= j
         data == {i \in 1 .. end : buffer[i].char = "data"}
     IN  /\ buffer' = SubSeq(buffer, end + 2, Len(buffer))
         /\ IF data = {} THEN UNCHANGED <<status, words, generated, failed>>
            ELSE \E i \in data : Handle(buffer[1].char, buffer[i].of)
  /\ UNCHANGED <<reader, script, read, open>>

(* The loop is over; the assistant's input is free again.                  *)
StreamEnds ==
  /\ open /\ Quiet /\ read = Len(Wire)
  /\ open' = FALSE
  /\ status' = IF reader = "chat" THEN "idle" ELSE status
  /\ UNCHANGED <<reader, script, read, buffer, generated, words, failed>>

(* The request is refused, or the connection breaks; the status of the     *)
(* prompt stays, and its Stop button with it.                              *)
StreamBreaks ==
  /\ open /\ Quiet
  /\ open' = FALSE /\ failed' = TRUE
  /\ status' = IF reader = "chat" THEN "idle" ELSE status
  /\ UNCHANGED <<reader, script, read, buffer, generated, words>>

-----------------------------------------------------------------------------
Fresh(s, st) ==
  /\ script' = s /\ read' = 0 /\ buffer' = <<>> /\ open' = TRUE
  /\ status' = st /\ words' = 0 /\ failed' = FALSE

(* The prompt cannot be edited nor run again, and there is a Stop button.  *)
Running == status \in {"prefill", "decoding"}

(* The stream before, if it is still read, is aborted.                     *)
RunPrompt ==
  /\ Quiet /\ reader = "prompt" /\ ~Running
  /\ \E s \in PromptScripts : Fresh(s, "prefill")
  /\ generated' = 0 /\ UNCHANGED reader

(* So it is when the prompt does not fit in the GPU's memory.              *)
OutOfMemory ==
  /\ Quiet /\ reader = "prompt" /\ ~Running
  /\ open' = FALSE /\ failed' = TRUE
  /\ UNCHANGED <<reader, script, read, buffer, status, generated, words>>

StopPrompt ==
  /\ Quiet /\ reader = "prompt" /\ Running
  /\ open' = FALSE /\ status' = "idle"
  /\ UNCHANGED <<reader, script, read, buffer, generated, words, failed>>

Send ==
  /\ Quiet /\ reader = "chat" /\ status = "idle"
  /\ \E s \in ChatScripts : Fresh(s, "decoding")
  /\ UNCHANGED <<reader, generated>>

-----------------------------------------------------------------------------
StreamInit ==
  /\ reader \in {"prompt", "chat"}
  /\ script = <<>> /\ read = 0 /\ buffer = <<>> /\ open = FALSE
  /\ status = "idle" /\ generated = 0 /\ words = 0 /\ failed = FALSE

StreamNext ==
  ReadChunk \/ TakeBlock \/ StreamEnds \/ StreamBreaks \/ RunPrompt \/ OutOfMemory \/ StopPrompt \/ Send

StreamSpec == StreamInit /\ [][StreamNext]_streamVars

-----------------------------------------------------------------------------
(* How many events of this kind have arrived with their blank line.        *)
Arrived(e) ==
  Cardinality({k \in DOMAIN script :
    script[k] = e /\ Len(Text(k)) <= read})

(* Wherever the chunks are cut, what is shown is what has arrived: every   *)
(* token once, the end when its event is there, an error too; and the      *)
(* assistant waits exactly while its stream is read                        *)
(* (api.ts:117-141, LiveInferencePlayground.tsx:96-124,                    *)
(* AiChatPanel.tsx:90-108).                                                *)
ArrivedIsShown ==
  Quiet =>
    /\ words = Arrived("token")
    /\ reader = "prompt" => /\ generated = words
                            /\ status = "done" <=> Arrived("done") > 0
                            /\ Arrived("error") > 0 => status = "idle"
    /\ reader = "chat" => (status = "decoding" <=> open)
    /\ Arrived("error") > 0 => failed
===============================================================================
