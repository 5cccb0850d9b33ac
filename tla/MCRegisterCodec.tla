--------------------------- MODULE MCRegisterCodec ---------------------------
(* Every kind of register the map has, and words on either side of each edge. *)
EXTENDS RegisterCodec

LOCAL Plain(t) == [type |-> t, optional |-> FALSE, writable |-> FALSE, scale |-> 1000,
                   minimum |-> None, maximum |-> None, step |-> None,
                   options |-> None]
LOCAL Limited(t, lo, hi, st) == [Plain(t) EXCEPT !.writable = TRUE,
                                 !.minimum = lo, !.maximum = hi, !.step = st]

MCRegisters == {
  Plain("uint16"), [Plain("uint16") EXCEPT !.scale = 10000],
  [Plain("uint16") EXCEPT !.writable = TRUE],
  [Plain("uint16") EXCEPT !.writable = TRUE, !.options = {0, 4000}],
  [Limited("uint16", 100, 4000, 20) EXCEPT !.scale = 10],
  [Limited("uint16", 0, 1439000, None) EXCEPT !.optional = TRUE],
  [Plain("temp") EXCEPT !.optional = TRUE], Plain("temp"),
  Limited("temp", -4500, 4500, 500),
  [Limited("temp", -50000, 55000, None) EXCEPT !.optional = TRUE],
  Plain("uint32"), Plain("dtime")}

LOCAL Edges == {0, 1, 101, 16383, 16384, 16485, 32767,
                32768, 49051, 49151, 49152, 65435, 65535}

\* 2023 and 2024 with months 0, 2, 12 and 13, unused bits set in one of them,
\* and days 0, 28 to 31, hours 23 and 24, minutes 59 and 60.
LOCAL Highs == {(y - 1900) * 16 + m : y \in {2023, 2024, 2000}, m \in {0, 2, 4, 12, 13}} \cup {4096 + 2}
LOCAL Lows == {d * 2048 + h * 64 + n : d \in {0, 1, 28, 29, 30, 31}, h \in {23, 24}, n \in {0, 59, 60}}

MCContent(r) == CASE r.type = "uint32" -> Edges \X Edges
                  [] r.type = "dtime"  -> Highs \X Lows
                  [] OTHER -> {<<w>> : w \in Edges}

\* Off the step, on a tie, on and past each bound, past the type's range.
MCAsked == {-4501, -4500, -2050, -50, -49, 0, 49, 50, 100, 120, 110, 500, 4000,
            4020, 55000, 55001, -50000, 1439000, 1440000, 65535000, 65535499, 65535500, -500, -501, 499}
=============================================================================
