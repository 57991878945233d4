------------------------------- MODULE Printk -------------------------------
(***************************************************************************)
(* Formatted output (printk.c): printk writes to the serial line,          *)
(* print_screen draws at a cursor; the two are the same code but for where *)
(* a character goes.  A format is taken one item at a time: a character,   *)
(* or a directive with its flags, width and conversion.                    *)
(*                                                                         *)
(* Digits are the numbers 0..15, other characters are negative.  Integers  *)
(* keep a width: BITS gives each C type's, scaled down so that long and    *)
(* long long still agree and each shorter type is shorter.  Both functions *)
(* fetch an argument into a field of one union u: a short field replaces   *)
(* the low bits, and what lies above is what was there before, at first    *)
(* whatever the stack held.                                                *)
(***************************************************************************)
EXTENDS Integers, Sequences

CONSTANT PRINT_ITEMS     \* Items of a format that are looked at.

VARIABLES
    sink,      \* "uart" (printk) or "screen" (print_screen)
    u,         \* the union's bits
    pc,        \* the count that will be returned
    dat,       \* [x, y]: the cursor, in characters and lines
    field,     \* what the last directive put out
    last,      \* the last directive and its argument
    items      \* items of the format done

printvars == <<sink, u, pc, dat, field, last, items>>

MINUS == -1
BLANK == -2
LETTER == -3
NEWLINE == -4
RETURN == -5

BITS == [hh |-> 2, h |-> 3, i |-> 4, l |-> 5, ll |-> 5]

SIZES == DOMAIN BITS

Unsigned(v, bits) == v % 2 ^ bits
Signed(v, bits) == LET w == v % 2 ^ bits
                   IN  IF w < 2 ^ (bits - 1) THEN w ELSE w - 2 ^ bits

\* A directive: flags, width ('*' takes the same width from the arguments),
\* length modifier and conversion.
DIRECTIVES ==
    [right : BOOLEAN, zero : BOOLEAN, width : {0, 1, 3},
     size : SIZES, conv : {"d", "u", "x", "X"}]

PLAIN == [right |-> FALSE, zero |-> FALSE, width |-> 0, size |-> "i", conv |-> "d"]

\* The least, the greatest and some values between of the directive's type.
Args(d) == LET b == 2 ^ BITS[d.size]
           IN  IF d.conv = "d" THEN {-(b \div 2), -1, 0, 1, b \div 2 - 1}
                               ELSE {0, 1, b \div 2, b - 1}

-----------------------------------------------------------------------------
(* Output of characters.                                                   *)

\* screen_outputchar: '\r' goes back to the start of the line, '\n' to that of
\* the next, anything else moves by one glyph.
screen_outputchar(d, c) ==
    CASE c = RETURN -> [d EXCEPT !.x = 0]
      [] c = NEWLINE -> [x |-> 0, y |-> d.y + 1]
      [] OTHER -> [d EXCEPT !.x = @ + 1]

\* The cursor after characters s (the serial line has none).
Moved(s) ==
    LET to[k \in 0..Len(s)] ==
            IF k = 0 THEN dat ELSE screen_outputchar(to[k - 1], s[k])
    IN  IF sink = "screen" THEN to[Len(s)] ELSE dat

Pad(n, c) == [k \in 1..n |-> c]

\* prints, screen_prints: a width wider than the string is filled in front,
\* or behind with PAD_RIGHT.
prints(s, width, d) ==
    LET fill == IF width > Len(s) THEN width - Len(s) ELSE 0
        char == IF d.zero THEN 0 ELSE BLANK
    IN  IF d.right THEN s \o Pad(fill, char) ELSE Pad(fill, char) \o s

\* The digits of n, most significant first.
Digits(n, base) ==
    LET of[k \in 0..n] == IF k = 0 THEN <<>> ELSE Append(of[k \div base], k % base)
    IN  of[n]

\* The sign is always part of the string, so zeros are put before it.
outputi_SignInside(i, base, sign, d) ==
    LET neg == sign /\ base = 10 /\ i < 0
        s   == Digits(IF neg THEN -i ELSE Unsigned(i, BITS.ll), base)
    IN  CASE i = 0 -> prints(<<0>>, d.width, d)
          [] i # 0 -> prints(IF neg THEN <<MINUS>> \o s ELSE s, d.width, d)

\* screen_outputi, simple_outputi: i is a long long; without a sign it is
\* taken as unsigned again.  A sign comes before zeros and takes one of the
\* width, but follows blanks.
outputi(i, base, sign, d) ==
    LET neg == sign /\ base = 10 /\ i < 0
        s   == Digits(IF neg THEN -i ELSE Unsigned(i, BITS.ll), base)
    IN  CASE i = 0 -> prints(<<0>>, d.width, d)
          [] neg /\ d.width # 0 /\ d.zero -> <<MINUS>> \o prints(s, d.width - 1, d)
          [] neg /\ ~(d.width # 0 /\ d.zero) -> prints(<<MINUS>> \o s, d.width, d)
          [] OTHER -> prints(s, d.width, d)

-----------------------------------------------------------------------------
(* The conversions.                                                        *)

\* The union after an argument of b bits is stored in one of its fields.
Stored(v, b) == (u - Unsigned(u, b)) + Unsigned(v, b)

\* What is handed on: the field for %d and for the wide unsigned ones; the
\* unsigned short and char conversions hand on u.lli, the whole union.
Fetched(d, bits) ==
    CASE d.conv = "d" -> Signed(bits, BITS[d.size])
      [] d.conv # "d" /\ d.size \in {"h", "hh"} -> Signed(bits, BITS.ll)
      [] OTHER -> Signed(Unsigned(bits, BITS[d.size]), BITS.ll)

Put(s, kind, d, v) ==
    /\ field' = s
    /\ pc' = pc + Len(s)
    /\ dat' = Moved(s)
    /\ last' = [kind |-> kind, d |-> d, v |-> v]
    /\ items' = items + 1
    /\ UNCHANGED sink

\* The next item of the format is looked at.
Reading == items < PRINT_ITEMS /\ last.kind = "none"

\* %d %u %x %X, plain or with l, ll, h, hh.
number(d, v) ==
    /\ Reading
    /\ u' = Stored(v, BITS[d.size])
    /\ Put(outputi(Fetched(d, u'), IF d.conv \in {"x", "X"} THEN 16 ELSE 10,
                   d.conv = "d", d), "number", d, v)

\* %s (a null pointer prints a text of its own) and %c: a string of n characters.
string(n, d) ==
    /\ Reading
    /\ \/ \E bits \in {0, 2 ^ BITS.ll - 1} : u' = bits     \* u.s: a pointer
       \/ n = 1 /\ \E c \in {0, 1} : u' = Stored(c, BITS.hh)  \* u.c
    /\ Put(prints(Pad(n, LETTER), d.width, d), "string", d, n)

\* A character of the format, '%%' included; an unknown conversion puts out
\* nothing and takes no argument.
literal(c) ==
    /\ Reading
    /\ Put(<<c>>, "text", PLAIN, 1)
    /\ UNCHANGED u

unknown ==
    /\ Reading
    /\ Put(<<>>, "unknown", PLAIN, 0)
    /\ UNCHANGED u

\* The loop over the format goes on.
advance ==
    /\ last.kind # "none"
    /\ last' = [kind |-> "none", d |-> PLAIN, v |-> 0] /\ field' = <<>>
    /\ UNCHANGED <<sink, u, pc, dat, items>>

PrintInit ==
    /\ sink \in {"uart", "screen"}
    /\ u \in {0, 2 ^ BITS.ll - 1}
    /\ pc = 0 /\ field = <<>> /\ last = [kind |-> "none", d |-> PLAIN, v |-> 0] /\ items = 0
    /\ dat = [x |-> 0, y |-> 0]

PrintNext ==
    \/ \E d \in DIRECTIVES : \E v \in Args(d) : number(d, v)
    \/ \E n \in 0..4, r \in BOOLEAN, w \in {0, 3} :
           string(n, [PLAIN EXCEPT !.right = r, !.width = w])
    \/ \E c \in {LETTER, NEWLINE, RETURN} : literal(c)
    \/ unknown
    \/ advance

-----------------------------------------------------------------------------
(* Properties.                                                             *)

\* The number a field spells in a base: blanks are skipped, a sign may come
\* before the digits and nowhere else.
Spells(s, base, v) ==
    LET body == SelectSeq(s, LAMBDA c : c # BLANK)
        neg  == body # <<>> /\ body[1] = MINUS
        ds   == IF neg THEN Tail(body) ELSE body
        val[k \in 0..Len(ds)] == IF k = 0 THEN 0 ELSE val[k - 1] * base + ds[k]
    IN  /\ ds # <<>> /\ \A k \in DOMAIN ds : ds[k] >= 0
        /\ v = IF neg THEN -val[Len(ds)] ELSE val[Len(ds)]

\* A number directive prints its argument: read back in its base, the field
\* spells the value of the argument's type, for the least negative number and
\* the largest unsigned one too, padding never changes it (but for zeros asked
\* for behind the digits), and the field is as wide as asked.  The unsigned
\* short and char conversions print the rest of the union with it.
FieldSpells ==
    last.kind = "number" =>
        LET d == last.d
            v == last.v
            base == IF d.conv \in {"x", "X"} THEN 16 ELSE 10
        IN  /\ Len(field) >= d.width
            /\ \/ d.right /\ d.zero
               \/ IF d.size \in {"h", "hh"} /\ d.conv # "d"
                  THEN Spells(field, base, Unsigned(u, BITS.ll)) /\ Unsigned(u, BITS[d.size]) = v
                  ELSE Spells(field, base, v)
=============================================================================
