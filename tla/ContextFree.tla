---------------------------- MODULE ContextFree ----------------------------
(***************************************************************************)
(* Context-free grammars, in which the documentation of the languages is   *)
(* written down: the phrases of a symbol in a text, and the tokens a       *)
(* phrase may begin with.                                                  *)
(*                                                                         *)
(* A grammar is a function from productions to sets of alternatives and an *)
(* alternative is a sequence of items.  An item is a symbol, one of a set  *)
(* of symbols, an optional or a repeated sequence of them; a symbol is a   *)
(* production or a token.                                                  *)
(***************************************************************************)
EXTENDS Integers, Sequences, FiniteSets, FiniteSetsExt, SequencesExt, TLC

Item(how, symbols) == [how |-> how, symbols |-> symbols]
One(x)      == Item("one", <<{x}>>)
Among(xs)   == Item("one", <<xs>>)
Opt(xs)     == Item("opt", [i \in DOMAIN xs |-> {xs[i]}])
Rep(xs)     == Item("rep", [i \in DOMAIN xs |-> {xs[i]}])
OptAmong(xs) == Item("opt", <<xs>>)
List(x) == <<One(x), Rep(<<"comma", x>>)>>
(* Symbols that follow one another.                                        *)
All(xs) == [i \in DOMAIN xs |-> One(xs[i])]

(* A grammar without some symbols and the alternatives that need them.     *)
LeavingOut(g, gone) ==
    LET Spared(item) == [item EXCEPT !.symbols = [k \in DOMAIN @ |-> @[k] \ gone]]
        Possible(item) == \A k \in DOMAIN item.symbols : item.symbols[k] # {}
        Alternatives(p) == {[i \in DOMAIN a |-> Spared(a[i])] : a \in g[p]}
    IN  [p \in DOMAIN g \ gone |->
            {SelectSeq(a, Possible)
             : a \in {a \in Alternatives(p) : \A i \in DOMAIN a : a[i].how = "one" => Possible(a[i])}}]

-----------------------------------------------------------------------------
(* EndsOf(g, w, i, x): where a phrase of the symbol that starts at i may   *)
(* end (the index behind it), in a text w.                                 *)
RECURSIVE EndsOf(_, _, _, _), AfterSymbols(_, _, _, _), AfterItems(_, _, _, _), AfterMany(_, _, _, _)

EndsOf(g, w, i, x) ==
    IF x \in DOMAIN g THEN UNION {AfterItems(g, w, {i}, a) : a \in g[x]}
    ELSE IF i <= Len(w) /\ w[i].type = x THEN {i + 1} ELSE {}

AfterSymbols(g, w, starts, symbols) ==
    IF symbols = <<>> \/ starts = {} THEN starts
    ELSE AfterSymbols(g, w, UNION {EndsOf(g, w, i, x) : i \in starts, x \in Head(symbols)},
                      Tail(symbols))

(* A repetition goes on from the ends that are new.                        *)
AfterMany(g, w, starts, symbols) ==
    IF starts = {} THEN {}
    ELSE starts \cup AfterMany(g, w, AfterSymbols(g, w, starts, symbols) \ starts, symbols)

AfterItems(g, w, starts, items) ==
    IF items = <<>> \/ starts = {} THEN starts
    ELSE LET item == Head(items)
             next == CASE item.how = "one" -> AfterSymbols(g, w, starts, item.symbols)
                       [] item.how = "opt" -> starts \cup AfterSymbols(g, w, starts, item.symbols)
                       [] item.how = "rep" -> AfterMany(g, w, starts, item.symbols)
         IN  AfterItems(g, w, next, Tail(items))

-----------------------------------------------------------------------------
(* The tokens a phrase may begin with.                                     *)

RECURSIVE FirstOf(_, _), FirstOfItems(_, _), Empty(_, _), EmptyItem(_, _)

Empty(g, x) ==
    /\ x \in DOMAIN g
    /\ \E a \in g[x] : \A i \in DOMAIN a : EmptyItem(g, a[i])

EmptyItem(g, item) ==
    \/ item.how # "one"
    \/ \A k \in DOMAIN item.symbols : \E x \in item.symbols[k] : Empty(g, x)

FirstOf(g, x) ==
    IF x \in DOMAIN g THEN UNION {FirstOfItems(g, a) : a \in g[x]} ELSE {x}

FirstOfItems(g, items) ==
    IF items = <<>> THEN {}
    ELSE UNION {FirstOf(g, x) : x \in Head(items).symbols[1]}
         \cup IF EmptyItem(g, Head(items)) THEN FirstOfItems(g, Tail(items)) ELSE {}

(* The tokens that may come behind a production: first its occurrences in  *)
(* others, with what comes next there and whether it may come last.        *)
Occurrences(g, q) ==
    LET Rest(a, i, k) ==
            [j \in 1 .. Len(a[i].symbols) - k |-> Item("one", <<a[i].symbols[k + j]>>)]
            \o (IF a[i].how = "rep" THEN <<Item("opt", a[i].symbols)>> ELSE <<>>)
            \o SubSeq(a, i + 1, Len(a))
    IN  UNION {UNION {UNION {{[symbol |-> x, in |-> q,
                               next |-> FirstOfItems(g, Rest(a, i, k)),
                               last |-> \A j \in DOMAIN Rest(a, i, k) : EmptyItem(g, Rest(a, i, k)[j])]
                              : x \in a[i].symbols[k]}
                             : k \in DOMAIN a[i].symbols}
                      : i \in DOMAIN a}
               : a \in g[q]}

RECURSIVE FollowsFrom(_, _)
FollowsFrom(places, known) ==
    LET next == [x \in DOMAIN known |->
                    known[x] \cup UNION {o.next \cup (IF o.last THEN known[o.in] ELSE {})
                                         : o \in {o \in places : o.symbol = x}}]
    IN  IF next = known THEN known ELSE FollowsFrom(places, next)

FollowsOf(g, start, end) ==
    FollowsFrom(UNION {Occurrences(g, q) : q \in DOMAIN g},
                [x \in DOMAIN g |-> IF x = start THEN {end} ELSE {}])

-----------------------------------------------------------------------------
(* Phrases of a grammar, for the texts that are checked.                   *)

Shortest(phrases) == CHOOSE w \in phrases : \A u \in phrases : Len(w) <= Len(u)

(* "short" has a phrase for each symbol that stands inside of others, a    *)
(* token that it does not have stands for itself.                          *)
ShortSymbols(g, short, symbols) ==
    FlattenSeq([k \in DOMAIN symbols |->
        Shortest({IF x \in DOMAIN short THEN short[x] ELSE <<x>>
                  : x \in {x \in symbols[k] : x \in DOMAIN g => x \in DOMAIN short}})])
ShortItems(g, short, items) ==
    [i \in DOMAIN items |->
        IF items[i].how = "one" THEN ShortSymbols(g, short, items[i].symbols) ELSE <<>>]
FullItems(g, short, items) == [i \in DOMAIN items |-> ShortSymbols(g, short, items[i].symbols)]

(* From the phrases chosen for some symbols, those for all: a production   *)
(* gets one as soon as the parts of one of its alternatives have theirs.   *)
RECURSIVE Shorts(_, _)
Shorts(g, short) ==
    LET Ready(a) == \A i \in DOMAIN a : a[i].how = "one" =>
                        \A k \in DOMAIN a[i].symbols :
                            \E x \in a[i].symbols[k] : x \in DOMAIN g => x \in DOMAIN short
        new == {p \in DOMAIN g \ DOMAIN short : \E a \in g[p] : Ready(a)}
    IN  IF new = {} THEN short
        ELSE Shorts(g, short @@ [p \in new |->
                 Shortest({FlattenSeq(ShortItems(g, short, a)) : a \in {a \in g[p] : Ready(a)}})])

(* The ways to write an item; of a repetition none, one and two.           *)
Ways(g, short, item) ==
    LET once == {ShortSymbols(g, short, <<{x}>> \o Tail(item.symbols)) : x \in item.symbols[1]}
    IN  CASE item.how = "one" -> once
          [] item.how = "opt" -> once \cup {<<>>}
          [] item.how = "rep" -> once \cup {<<>>} \cup {w \o w : w \in once}

(* One item of a production is written in each way, the others in the      *)
(* shortest; or all are there.                                             *)
Phrases(g, short, p) ==
    UNION {LET parts == ShortItems(g, short, a)
           IN  {FlattenSeq(FullItems(g, short, a)), FlattenSeq(parts)} \cup
               UNION {{FlattenSeq([parts EXCEPT ![i] = w]) : w \in Ways(g, short, a[i])}
                      : i \in DOMAIN a}
           : a \in g[p]}

(* The text around a symbol of a production, as what comes before and what *)
(* comes behind, when the text around the production is known.             *)
Mentioned(a) == UNION {UNION Range(a[i].symbols) : i \in DOMAIN a}

Around(g, short, context, q, p) ==
    LET a == CHOOSE a \in g[q] : p \in Mentioned(a)
        i == CHOOSE i \in DOMAIN a : p \in UNION Range(a[i].symbols)
        symbols == a[i].symbols
        k == CHOOSE k \in DOMAIN symbols : p \in symbols[k]
        parts == ShortItems(g, short, a)
    IN  <<context[1] \o FlattenSeq(SubSeq(parts, 1, i - 1))
                     \o ShortSymbols(g, short, SubSeq(symbols, 1, k - 1)),
          ShortSymbols(g, short, SubSeq(symbols, k + 1, Len(symbols)))
          \o FlattenSeq(SubSeq(parts, i + 1, Len(a))) \o context[2]>>

(* For all productions from some: each is put in the first text found.     *)
RECURSIVE Contexts(_, _, _)
Contexts(g, short, known) ==
    LET Uses(q) == (UNION {Mentioned(a) : a \in g[q]}) \cap DOMAIN g
        new == (UNION {Uses(q) : q \in DOMAIN known}) \ DOMAIN known
    IN  IF new = {} THEN known
        ELSE Contexts(g, short,
                 known @@ [p \in new |-> LET q == CHOOSE q \in DOMAIN known : p \in Uses(q)
                                         IN  Around(g, short, known[q], q, p)])

(* A text with a token left out, or one written twice.                     *)
Without(w, i) == SubSeq(w, 1, i - 1) \o SubSeq(w, i + 1, Len(w))
Twice(w, i) == SubSeq(w, 1, i) \o SubSeq(w, i, Len(w))
=============================================================================
