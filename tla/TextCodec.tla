----------------------------- MODULE TextCodec ------------------------------
(***************************************************************************)
(* A text file in another encoding (src/src/runtime/encoding.c): stdio     *)
(* asks for blocks of UTF-8, or hands blocks over, and each call converts  *)
(* what it can with iconv and keeps a few bytes for the next call.  A      *)
(* character is a kind that says how many bytes it takes; a byte is its    *)
(* kind and its place in the character.                                    *)
(***************************************************************************)
EXTENDS Naturals, SequencesExt

CONSTANTS
  Kinds,       \* the characters, and BAD
  Foreign,     \* kind -> bytes in the other encoding
  Utf8,        \* kind -> bytes in UTF-8
  Missing,     \* kinds the other encoding does not have
  BAD,         \* a byte that is malformed in the other encoding
  Texts,       \* the texts to convert: sequences of kinds
  ChunkBytes,  \* bytes one call takes from the file
  OutBytes,    \* bytes one call can give to stdio
  KeepBytes,   \* bytes a read can keep for the next call
  BlockBytes,  \* bytes stdio hands over when its buffer is full
  JoinBytes    \* bytes a write can put together with those kept

VARIABLES
  tpc,      \* "reading", "writing", "read", "written", "cut", "failed" or "idle"
  text,     \* the characters to be converted
  raw,      \* the bytes still in the file, or in the program
  kept,     \* the bytes held back between calls
  made,     \* the bytes converted so far
  dropped,  \* a read has thrown input away
  torn      \* a write has put bytes before others it held back

codecVars == <<tpc, text, raw, kept, made, dropped, torn>>

Byte(k, i) == <<k, i>>
Encoded(t, size) ==
  FlattenSeq([i \in DOMAIN t |-> [j \in 1 .. size[t[i]] |-> Byte(t[i], j)]])

\* What a character becomes when it is written.
Substitute(k) == IF k \in Missing THEN <<Byte("?", 1)>> ELSE [j \in 1 .. Foreign[k] |-> Byte(k, j)]
Wanted == FlattenSeq([i \in DOMAIN text |-> Substitute(text[i])])

CodecIdle ==
  /\ tpc = "idle" /\ text = << >> /\ raw = << >> /\ kept = << >> /\ made = << >>
  /\ dropped = FALSE /\ torn = FALSE

\* A file that is to be written holds no malformed bytes, one that is to be read
\* only what its encoding has.
CodecInit ==
  /\ text \in Texts
  /\ \/ tpc = "reading" /\ ToSet(text) \cap Missing = {} /\ raw = Encoded(text, Foreign)
     \/ tpc = "writing" /\ BAD \notin ToSet(text) /\ raw = Encoded(text, Utf8)
  /\ kept = << >> /\ made = << >> /\ dropped = FALSE /\ torn = FALSE

----------------------------------------------------------------------------
(***************************************************************************)
(* iconv (external): characters are converted from the front until the     *)
(* input is used up, ends inside a character, is malformed, or the room is *)
(* used up.                                                                *)
(***************************************************************************)
\* The bytes of b from i on begin like the character k.
Begins(b, i, k, size) ==
  \A j \in 1 .. size[k] : i + j - 1 <= Len(b) => b[i + j - 1] = Byte(k, j)

Whole(b, i, k, size) == i + size[k] - 1 <= Len(b)

Iconv(b, from, to, room) ==
  LET step(a, i) ==
        IF a.why # "done" \/ i <= a.used THEN a
        ELSE LET k == b[i][1]
             IN IF k = BAD \/ ~ Begins(b, i, k, from) THEN [a EXCEPT !.why = "malformed"]
                ELSE IF ~ Whole(b, i, k, from) THEN [a EXCEPT !.why = "partial"]
                ELSE IF to # Utf8 /\ k \in Missing THEN [a EXCEPT !.why = "malformed"]
                ELSE IF Len(a.out) + to[k] > room THEN [a EXCEPT !.why = "full"]
                ELSE [a EXCEPT !.used = i + from[k] - 1,
                               !.out = @ \o [j \in 1 .. to[k] |-> Byte(k, j)]]
  IN FoldLeft(step, [used |-> 0, out |-> << >>, why |-> "done"], [i \in DOMAIN b |-> i])

----------------------------------------------------------------------------
(***************************************************************************)
(* read_cb.  A call that gives nothing, or fails, is the end of the file   *)
(* for the readers: they do not look at ferror.                            *)
(***************************************************************************)
Upto(s, n) == SubSeq(s, 1, IF n < Len(s) THEN n ELSE Len(s))
After(s, n) == SubSeq(s, n + 1, Len(s))

\* Mutant: what follows a character cut by the end of a chunk is not kept.
HoldBack_Forgets(c, rest) == IF c.why = "full" THEN Upto(rest, KeepBytes) ELSE << >>

\* What is kept for the next call.
HoldBack(c, rest) == IF c.why = "partial" THEN rest
                     ELSE IF c.why = "full" THEN Upto(rest, KeepBytes) ELSE << >>

ReadBlock ==
  /\ tpc = "reading"
  /\ LET got == Upto(raw, ChunkBytes - Len(kept))
         b == kept \o got
         c == Iconv(b, Foreign, Utf8, OutBytes)
         rest == After(b, c.used)
     IN /\ raw' = After(raw, Len(got))
        /\ kept' = HoldBack(c, rest)
        /\ dropped' = (dropped \/ (c.why = "full" /\ Len(rest) > KeepBytes))
        /\ IF c.why = "malformed" \/ c.out = << >>
             THEN tpc' = "read" /\ UNCHANGED made
             ELSE made' = made \o c.out /\ UNCHANGED tpc
  /\ UNCHANGED <<text, torn>>

\* fread fails: what was kept is gone.
ReadTextFails ==
  /\ tpc = "reading"
  /\ tpc' = "cut" /\ kept' = << >>
  /\ UNCHANGED <<text, raw, made, dropped, torn>>

----------------------------------------------------------------------------
(***************************************************************************)
(* write_cb.                                                               *)
(***************************************************************************)
\* write_chunk: what cannot be converted becomes a question mark, and as many
\* bytes are skipped as its first byte says; a cut character is kept.
WriteChunks(b) ==
  LET step(a, i) ==
        IF a.kept # << >> \/ i <= a.used THEN a
        ELSE LET k == b[i][1]
                 c == Iconv(SubSeq(b, i, Len(b)), Utf8, Foreign, Len(b) * BlockBytes)
             IN IF c.used > 0 THEN [a EXCEPT !.used = i + c.used - 1, !.out = @ \o c.out]
                ELSE IF c.why = "partial" THEN [a EXCEPT !.kept = After(b, i - 1)]
                ELSE [a EXCEPT !.used = i + (IF b[i][2] = 1 THEN Utf8[k] ELSE 1) - 1,
                               !.out = Append(@, Byte("?", 1))]
  IN FoldLeft(step, [used |-> 0, out |-> << >>, kept |-> << >>], [i \in DOMAIN b |-> i])

\* What is kept goes before the block, as far as there is room to join them;
\* the rest of the block is converted on its own, whatever was held back again.
Block == Upto(raw, BlockBytes)
Conversion ==
  LET take == IF kept = << >> THEN Len(Block) ELSE Len(Upto(Block, JoinBytes - Len(kept)))
      first == WriteChunks(kept \o SubSeq(Block, 1, take))
      second == WriteChunks(After(Block, take))
  IN [out |-> first.out \o second.out,
      kept |-> IF second.kept # << >> THEN second.kept ELSE first.kept,
      torn |-> first.kept # << >> /\ take < Len(Block)]

WriteBlock ==
  /\ tpc = "writing" /\ raw # << >>
  /\ made' = made \o Conversion.out
  /\ kept' = Conversion.kept
  /\ torn' = (torn \/ Conversion.torn)
  /\ raw' = After(raw, Len(Block))
  /\ UNCHANGED <<tpc, text, dropped>>

\* The file below does not take all that it was given so far, now or at the end:
\* fwrite, fputc or fclose fail, and the writer of the rows learns it.
WriteTextFails ==
  /\ tpc = "writing"
  /\ tpc' = "failed"
  /\ LET all == made \o Conversion.out IN \E n \in 0 .. Len(all) : made' = SubSeq(all, 1, n)
  /\ torn' = (torn \/ Conversion.torn)
  /\ UNCHANGED <<text, raw, kept, dropped>>

\* What is still kept is given up.
CloseWrite ==
  /\ tpc = "writing" /\ raw = << >>
  /\ tpc' = "written"
  /\ UNCHANGED <<text, raw, kept, made, dropped, torn>>

CodecNext == ReadBlock \/ ReadTextFails \/ WriteBlock \/ WriteTextFails \/ CloseWrite

----------------------------------------------------------------------------
\* The text up to its first malformed byte.
Sound ==
  Encoded(IF BAD \in ToSet(text) THEN SubSeq(text, 1, SelectInSeq(text, LAMBDA k : k = BAD) - 1) ELSE text,
          Utf8)

\* Wherever the chunks and blocks cut the characters: what the readers get is the
\* text up to the first malformed byte, all of it if there is none; what is in
\* the file is every character or its substitute; a read or a write that fails
\* leaves a beginning of these (an overflowing read and a write torn by a
\* held-back character apart).
TextIsWhole ==
  /\ tpc = "read" /\ ~dropped =>
       IF BAD \in ToSet(text) THEN IsPrefix(made, Sound) ELSE made = Sound
  /\ tpc = "written" /\ ~torn => made = Wanted
  /\ tpc = "cut" /\ ~dropped => IsPrefix(made, Sound)
  /\ tpc = "failed" /\ ~torn => IsPrefix(made, Wanted)
=============================================================================
