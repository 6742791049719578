------------------------------- MODULE Evbuffer -------------------------------
(* src/cs/my_event/buffer.c: the buffers of the event library.  A buffer is    *)
(* the memory at orig_buffer (totallen cells), misalign, the cells before      *)
(* buffer, and off, the bytes it holds.  evbuffer_setcb is empty, so that      *)
(* nobody is ever told of a change (cb is NULL).                               *)
EXTENDS Integers, Sequences

CONSTANT MinLen  \* the first size, 256 in the source
ASSUME MinLenAssumption == MinLen \in Nat \ {0}

Junk == 0  \* what nobody has written

evbuffer_new == [mem |-> <<>>, misalign |-> 0, off |-> 0]
Cell(buf, i) == IF buf.misalign + i \in DOMAIN buf.mem THEN buf.mem[buf.misalign + i] ELSE Junk
Content(buf) == [i \in 1..buf.off |-> Cell(buf, i)]

evbuffer_drain(buf, len) ==
  IF len >= buf.off THEN [buf EXCEPT !.off = 0, !.misalign = 0]
  ELSE [buf EXCEPT !.misalign = @ + len, !.off = @ - len]

evbuffer_align(buf) ==
  [mem |-> [i \in DOMAIN buf.mem |-> IF i <= buf.off THEN Cell(buf, i) ELSE buf.mem[i]],
   misalign |-> 0, off |-> buf.off]

Need(buf, datlen) == buf.misalign + buf.off + datlen
Reallocs(buf, datlen) == Len(buf.mem) < Need(buf, datlen) /\ buf.misalign < datlen

(* MinLen, or what there is, doubled until it is enough. *)
Doubled(len, need) ==
  LET length[l \in Nat] == IF l >= need \/ l = 0 THEN l ELSE length[2 * l]
  IN length[len]
NewLen(buf, datlen) == Doubled(IF Len(buf.mem) < MinLen THEN MinLen ELSE Len(buf.mem), Need(buf, datlen))

(* Mutant: the bytes are not moved down before the memory is moved.            *)
evbuffer_expand_Keep(buf, datlen) ==
  CASE Len(buf.mem) >= Need(buf, datlen) -> buf
    [] Len(buf.mem) < Need(buf, datlen) /\ ~Reallocs(buf, datlen) -> evbuffer_align(buf)
    [] Reallocs(buf, datlen) ->
         [buf EXCEPT !.misalign = 0,
                     !.mem = [i \in 1..NewLen(buf, datlen) |-> IF i \in DOMAIN @ THEN @[i] ELSE Junk]]

evbuffer_expand(buf, datlen) ==
  LET low == evbuffer_align(buf)
  IN CASE Len(buf.mem) >= Need(buf, datlen) -> buf
       [] Len(buf.mem) < Need(buf, datlen) /\ ~Reallocs(buf, datlen) -> low
       [] Reallocs(buf, datlen) ->
            [low EXCEPT !.mem = [i \in 1..NewLen(buf, datlen) |-> IF i \in DOMAIN @ THEN @[i] ELSE Junk]]

(* What recv and memcpy put behind the bytes that are there. *)
Put(buf, data) ==
  LET at == buf.misalign + buf.off
  IN [buf EXCEPT !.off = @ + Len(data),
                 !.mem = [i \in DOMAIN @ |-> IF i - at \in DOMAIN data THEN data[i - at] ELSE @[i]]]

evbuffer_add(buf, data) == Put(evbuffer_expand(buf, Len(data)), data)

(* The bytes lie inside the memory. *)
InMemory(buf) == buf.misalign + buf.off <= Len(buf.mem)
===============================================================================
