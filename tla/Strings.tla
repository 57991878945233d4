------------------------------- MODULE Strings ------------------------------
(***************************************************************************)
(* kernel/src/stdlib/string.c.                                             *)
(*                                                                         *)
(* A call works on a small memory of characters whose last byte is 0, so   *)
(* that every string in it ends; an address is a natural number, and the   *)
(* subtraction of addresses is done modulo AddressSpace, as uintptr_t does *)
(* it.  str_split, which the path lookup and two shell commands call, is a *)
(* state machine of its own: it copies its argument to the heap, squeezes  *)
(* runs of delimiters in place and cuts the copy into tokens.  Memory from *)
(* new() is not cleared, so what the copy does not write may hold anything.*)
(***************************************************************************)
EXTENDS Integers, Sequences, FiniteSets

CONSTANTS
  STR_BYTES,     \* bound: bytes of the memory the one-call functions work on
  STR_TEXT,      \* bound: length of the string that str_split is given
  STR_NUMBER     \* bound: numbers given to itoa

ASSUME StringsAssumption ==
  /\ STR_BYTES \in Nat \ {0} /\ STR_TEXT \in Nat /\ STR_NUMBER \in Nat

VARIABLES
  bytes, prior,  \* the memory, and what it was before the call
  did,           \* the call: function, arguments, result
  text,          \* what str_split was given
  host,          \* host_str: the copy, from index 0 on
  hi, hj,        \* i and j of the loops over it
  toks,          \* sep_str: the tokens
  sat            \* "pick", "squeeze", "cut", "done"

strvars == <<bytes, prior, did, text, host, hi, hj, toks, sat>>

NUL == 0
DELIM == 1
CHARS == 0..2
AddressSpace == 4 * STR_BYTES

-----------------------------------------------------------------------------
(* Copying.                                                                *)

memcpy(m, d, s, n) ==
  LET up[k \in 0..n] == IF k = 0 THEN m
                        ELSE [up[k - 1] EXCEPT ![d + k - 1] = up[k - 1][s + k - 1]]
  IN  up[n]

copy_down(m, d, s, n) ==
  LET down[k \in 0..n] == IF k = 0 THEN m
                          ELSE [down[k - 1] EXCEPT ![d + n - k] = down[k - 1][s + n - k]]
  IN  down[n]

\* One unsigned comparison tells disjoint ranges on either side.
memmove(m, d, s, n) ==
  IF d = s THEN m
  ELSE IF (s - d - n) % AddressSpace <= (-(2 * n)) % AddressSpace THEN memcpy(m, d, s, n)
  ELSE IF d < s THEN memcpy(m, d, s, n) ELSE copy_down(m, d, s, n)

strlen(m, p) == CHOOSE k \in 0..(STR_BYTES - p) :
                  m[p + k] = NUL /\ \A q \in 0..(k - 1) : m[p + q] # NUL

\* The loop of strncpy, strncat and strlcpy: the index at which it stops.
CopyEnd(m, s, n) == IF strlen(m, s) < n THEN strlen(m, s) ELSE n

strncpy(m, d, s, n) ==
  LET e == CopyEnd(m, s, n)
  IN  [a \in DOMAIN m |-> IF a \in d..(d + e - 1) THEN m[s + a - d]
                          ELSE IF a \in (d + e)..(d + n - 1) THEN NUL ELSE m[a]]

strncat(m, d, s, n) ==
  LET e == CopyEnd(m, s, n) l == d + strlen(m, d)
  IN  [a \in DOMAIN m |-> IF a \in l..(l + e - 1) THEN m[s + a - l]
                          ELSE IF a = l + e THEN NUL ELSE m[a]]

strlcpy(m, d, s, n) ==
  LET e == CopyEnd(m, s, n - 1)
  IN  [a \in DOMAIN m |-> IF a \in d..(d + e - 1) THEN m[s + a - d]
                          ELSE IF a = d + e THEN NUL ELSE m[a]]

-----------------------------------------------------------------------------
(* Comparing and searching.                                                *)

strncmp(m, s, t, n) ==
  LET from[k \in 0..n] ==
        IF k = n THEN 0
        ELSE IF m[s + k] # m[t + k] THEN m[s + k] - m[t + k]
        ELSE IF m[s + k] = NUL THEN 0 ELSE from[k + 1]
  IN  from[0]

\* The first character is looked for, the rest compared behind it.
strstr(m, in, str) ==
  LET len == strlen(m, str + 1)
      from[p \in in..(in + strlen(m, in))] ==
        IF m[p] = NUL THEN -1
        ELSE IF m[p] = m[str] /\ strncmp(m, p + 1, str + 1, len) = 0 THEN p
        ELSE from[p + 1]
  IN  IF m[str] = NUL THEN in ELSE from[in]

\* Digits, the last first, then reversed in place.
itoa(n, base) ==
  LET digits[k \in 0..n] == IF k < base THEN <<k % base>>
                            ELSE <<k % base>> \o digits[k \div base]
      back == digits[n]
  IN  [k \in 1..Len(back) |-> back[Len(back) + 1 - k]]

\* A sign, then digits up to the first character that is none.
atoi(sign, ds) ==
  LET value[k \in 0..Len(ds)] == IF k = 0 THEN 0 ELSE 10 * value[k - 1] + ds[k]
  IN  IF sign = "-" THEN -value[Len(ds)] ELSE value[Len(ds)]

-----------------------------------------------------------------------------
Addresses == 0..(STR_BYTES - 1)
Nothing == [fn |-> "none", d |-> 0, s |-> 0, n |-> 0, ret |-> 0]

SplitIdle == UNCHANGED <<text, host, hi, hj, toks>>

Call(fn, d, s, n, ret, m) ==
  /\ did' = [fn |-> fn, d |-> d, s |-> s, n |-> n, ret |-> ret]
  /\ prior' = bytes /\ bytes' = m
  /\ sat' = "done" /\ SplitIdle

string_call ==
  /\ sat = "pick" /\ text = <<>>
  /\ \/ \E d, s \in Addresses, n \in 0..STR_BYTES :
          /\ d + n <= STR_BYTES /\ s + n <= STR_BYTES
          /\ Call("memmove", d, s, n, 0, memmove(bytes, d, s, n))
     \/ \E s \in 2..(STR_BYTES - 1), n \in 1..2 :
          \/ Call("strncpy", 0, s, n, 0, strncpy(bytes, 0, s, n))
          \/ Call("strlcpy", 0, s, n, CopyEnd(bytes, s, n - 1), strlcpy(bytes, 0, s, n))
          \/ /\ strlen(bytes, 0) + n < s
             /\ Call("strncat", 0, s, n, 0, strncat(bytes, 0, s, n))
     \/ \E d, s \in Addresses :
          Call("strstr", d, s, 0, strstr(bytes, d, s), bytes)
     \/ \E n \in 0..STR_NUMBER, sign \in {"+", "-"} :
          Call("atoi", n, 0, IF sign = "-" THEN -n ELSE n, atoi(sign, itoa(n, 10)), bytes)

-----------------------------------------------------------------------------
(* str_split.                                                              *)

\* A string that is all delimiters makes the second loop read str[-1]: it is
\* left out.  What follows the copy is whatever the heap held there.
str_split ==
  LET lead == CHOOSE k \in 0..Len(text) : text[k + 1] # DELIM /\
                                          \A q \in 1..k : text[q] = DELIM
      last == CHOOSE k \in 1..Len(text) : text[k] # DELIM /\
                                          \A q \in (k + 1)..Len(text) : text[q] = DELIM
      n == last - lead + 1
  IN  /\ sat = "pick"
      /\ \E k \in 1..Len(text) : text[k] # DELIM
      /\ \E junk \in CHARS :
           /\ host' = [k \in 0..(n + 1) |->
                         IF k > n THEN NUL
                         ELSE IF k = n THEN junk
                         ELSE IF lead + k + 1 <= Len(text) THEN text[lead + k + 1] ELSE NUL]
           /\ hj' = IF host'[n - 1] = NUL THEN n - 1
                    ELSE IF junk = NUL THEN n ELSE n + 1
      /\ hi' = 0 /\ toks' = <<>> /\ sat' = "squeeze"
      /\ UNCHANGED <<text, bytes, prior, did>>

\* Only one delimiter behind another is taken out.
squeeze_Once ==
  /\ sat = "squeeze"
  /\ IF hi >= hj THEN sat' = "cut" /\ hi' = 0 /\ UNCHANGED <<host, hj>>
     ELSE /\ hi' = hi + 1 /\ UNCHANGED sat
          /\ IF host[hi] = DELIM /\ host[hi + 1] = DELIM
             THEN /\ hj' = hj - 1
                  /\ host' = [memmove(host, hi, hi + 1, hj - 1 - hi) EXCEPT ![hj - 1] = NUL]
             ELSE UNCHANGED <<host, hj>>
  /\ UNCHANGED <<text, bytes, prior, did, toks>>

\* One delimiter behind another is overwritten by the rest of the string.
squeeze ==
  /\ sat = "squeeze"
  /\ IF hi >= hj THEN sat' = "cut" /\ hi' = 0 /\ UNCHANGED <<host, hj>>
     ELSE /\ UNCHANGED sat
          /\ IF host[hi] = DELIM /\ host[hi + 1] = DELIM
             THEN /\ hj' = hj - 1 /\ UNCHANGED hi
                  /\ host' = [memmove(host, hi, hi + 1, hj - 1 - hi) EXCEPT ![hj - 1] = NUL]
             ELSE hi' = hi + 1 /\ UNCHANGED <<host, hj>>
  /\ UNCHANGED <<text, bytes, prior, did, toks>>

\* The token that starts at hi ends at the next delimiter or at the end.
cut ==
  /\ sat = "cut"
  /\ LET e == CHOOSE k \in hi..hj : host[k] \in {NUL, DELIM} /\
                                    \A q \in hi..(k - 1) : host[q] \notin {NUL, DELIM}
     IN  /\ toks' = Append(toks, [k \in 1..(e - hi) |-> host[hi + k - 1]])
         /\ hi' = e + 1
         /\ sat' = IF host[e] = DELIM THEN "cut" ELSE "done"
  /\ UNCHANGED <<text, bytes, prior, did, host, hj>>

-----------------------------------------------------------------------------
StrIdle ==
  /\ bytes = [a \in Addresses |-> NUL] /\ prior = bytes /\ did = Nothing
  /\ text = <<>> /\ host = <<>> /\ hi = 0 /\ hj = 0 /\ toks = <<>> /\ sat = "pick"

StrInit ==
  /\ \/ /\ bytes \in [Addresses -> CHARS] /\ bytes[STR_BYTES - 1] = NUL
        /\ text = <<>>
     \/ /\ bytes = [a \in Addresses |-> NUL]
        /\ text \in UNION {[1..n -> {DELIM, 2}] : n \in 1..STR_TEXT}
  /\ prior = bytes /\ did = Nothing
  /\ host = <<>> /\ hi = 0 /\ hj = 0 /\ toks = <<>> /\ sat = "pick"

StrNext == string_call \/ str_split \/ squeeze \/ cut

-----------------------------------------------------------------------------
(* Properties.                                                             *)

Untouched(from, to) == \A a \in Addresses \ (from..to) : bytes[a] = prior[a]

String(m, p) == [k \in 1..strlen(m, p) |-> m[p + k - 1]]

\* What the calls of string.c do, whatever the memory: memmove moves n bytes
\* between ranges that may overlap on either side (its one unsigned test and
\* the direction it chooses decide), strncat appends and ends the string,
\* strstr finds the first occurrence (it compares behind a first character
\* that may recur), and atoi reads what itoa wrote.
CallsExact ==
  LET c == did IN
  /\ c.fn = "memmove" =>
       /\ \A k \in 0..(c.n - 1) : bytes[c.d + k] = prior[c.s + k]
       /\ Untouched(c.d, c.d + c.n - 1)
  /\ c.fn = "strncat" =>
       String(bytes, c.d) = String(prior, c.d)
         \o SubSeq(String(prior, c.s), 1, CopyEnd(prior, c.s, c.n))
  /\ c.fn \in {"strncpy", "strlcpy"} => Untouched(c.d, c.d + c.n - 1)
  /\ c.fn = "strlcpy" => strlen(bytes, c.d) = c.ret
  /\ c.fn = "strstr" =>
       LET pat == String(bytes, c.s)
           hits == {p \in c.d..(c.d + strlen(bytes, c.d)) :
                      /\ p + Len(pat) <= c.d + strlen(bytes, c.d)
                      /\ \A k \in 1..Len(pat) : bytes[p + k - 1] = pat[k]}
       IN  IF hits = {} THEN c.ret = -1
           ELSE c.ret \in hits /\ \A p \in hits : c.ret <= p
  /\ c.fn = "atoi" => c.ret = c.n

\* The words of a text, by where they start.
Words == {k \in 1..Len(text) : text[k] # DELIM /\ (k = 1 \/ text[k - 1] = DELIM)}

\* str_split gives the words of its argument, each once and in order, however
\* many delimiters lead or stand between them (the path lookup counts on it:
\* file.c:464).  For an argument that does not end in a delimiter: one that
\* does keeps its last delimiter, despite the comment of string.c:285, and the
\* token behind it is made of memory nobody wrote.
SplitTokens ==
  sat = "done" /\ text # <<>> /\ text[Len(text)] # DELIM =>
    /\ Len(toks) = Cardinality(Words)
    /\ \A w \in Words :
         LET t == toks[Cardinality({x \in Words : x <= w})]
         IN  /\ t = SubSeq(text, w, w + Len(t) - 1)
             /\ w + Len(t) > Len(text) \/ text[w + Len(t)] = DELIM

\* Both: the calls and the splitting of string.c do what their callers count on,
\* over every memory, every overlap and every arrangement of delimiters.
StringsExact == CallsExact /\ SplitTokens
=============================================================================
