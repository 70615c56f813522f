------------------------------ MODULE HttpText ------------------------------
(***************************************************************************)
(* The text the parsers of include/http read, as a sequence of symbols.    *)
(* A symbol is a character or a word: a run of characters, such as a       *)
(* header name.  Where lengths count, a word stands for one character.     *)
(*                                                                         *)
(* A std::string_view is a pair of positions <<first, end>>.               *)
(***************************************************************************)
EXTENDS Integers, Sequences, SequencesExt

Control == {"CR", "LF"}
Digit == {"0", "1", "2", "8"}
HexDigit == Digit \union {"a"}
Method == {"GET", "POST", "PUT"}
\* Symbols of letters only.
Alpha == {"a", "H", "T", "P", "chunked"} \union Method
Alnum == Alpha \union Digit
\* Header names, of letters and dashes.
HeaderName == {"Content-Length", "Content-Type", "Transfer-Encoding"}
\* With the beginning of a multipart Content-Type, up to boundary=: words
\* that begin with a letter and have others.
Word == HeaderName \union {"multipart-boundary"}
Mark == {"SP", ":", "/", ".", "-", "%", "@", "?", "#", "=", "&"}
\* A character above 127, which is negative where char is signed.
Signed == {"xE9"}

Symbols == Control \union Alnum \union Word \union Mark \union Signed

Empty == <<0, 0>>

Text(buf, v) == SubSeq(buf, v[1], v[2] - 1)

Value == [d \in HexDigit |->
            CASE d = "0" -> 0 [] d = "1" -> 1 [] d = "2" -> 2 [] d = "8" -> 8 [] d = "a" -> 10]

\* The symbols of `on` that t begins with.
Leading(t, on) ==
  LET stop == SelectInSeq(t, LAMBDA c : c \notin on) IN
  IF stop = 0 THEN t ELSE SubSeq(t, 1, stop - 1)

\* The number that the digits d stand for.
Positional(d, base, value) ==
  LET upTo[n \in 0 .. Len(d)] == IF n = 0 THEN 0 ELSE base * upTo[n - 1] + value[d[n]]
  IN  upTo[Len(d)]

\* atoi and stoi: past the spaces, the number t begins with, 0 if none.
Number(t, digits, base) ==
  LET u == SubSeq(t, Len(Leading(t, {"SP"})) + 1, Len(t))
      negative == IsPrefix(<<"-">>, u)
      n == Positional(Leading(IF negative THEN Tail(u) ELSE u, digits), base, Value)
  IN  IF negative THEN -n ELSE n

\* A parser in state `from` that reads a symbol of `on` goes to state `to`;
\* `do` says what it does with the view that ends at the symbol.
Rule(from, on, to, do) == [from |-> from, on |-> on, to |-> to, do |-> do]

Verdicts == {"InCompleted", "Completed", "Error"}
=============================================================================
