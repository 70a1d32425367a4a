------------------------------ MODULE PdbIndex ------------------------------
(***************************************************************************)
(* The index of symbols of libc/extensions/pdb_index.c: the parser that    *)
(* reads a listing in chunks, the trie it fills, the array sorted by       *)
(* address and the search in it.                                           *)
(*                                                                         *)
(* The listing is a sequence of lexemes: a tag, a digit (a number has      *)
(* one), a token of a name, a word of no interest, or a gap of spaces,     *)
(* signs and line ends.  A node of the trie holds the token it stands for  *)
(* and the name the token's pointer leads to.                              *)
(***************************************************************************)
EXTENDS Integers, Sequences, FiniteSets, SequencesExt

CONSTANTS
  Names,      \* the names of symbols, sequences of tokens
  Rvas,       \* the addresses, digits
  MaxSymbols, \* bound: how many symbols the listing has
  Cuts        \* after how many lexemes of a symbol a chunk may end

VARIABLES
  chunk, rest,            \* what is left of the buffer; the part of a symbol for the next one
  listed,                 \* the symbols of the listing so far
  stack, tag,             \* the parser's stack, its top first; the tag it looks for
  number, number_buffer, name_buffer, stored,
  symbol,                 \* the symbol that is put together
  root, num_symbols,      \* the trie, and how many were put into it
  index,                  \* the sorted array, once it is built
  built,
  stale                   \* a number was taken that this symbol did not have

Lex(kind, v) == [kind |-> kind, v |-> v]
Gap          == Lex("gap", 0)
Tag(t)       == Lex("tag", t)

\* A symbol of the listing.
Listing(name, rva) ==
  <<Lex("word", 0), Gap, Tag("function"), Gap,
    Tag("offset"), Gap, Lex("digit", rva), Gap,
    Tag("segment"), Gap, Lex("digit", 1), Gap, Tag("name"), Gap>>
  \o [i \in DOMAIN name |-> Lex("letters", name[i])] \o <<Gap>>

-----------------------------------------------------------------------------
\* Nodes of the trie; prefix and symbol are sequences of at most one.
Node(prefix, name) == [prefix |-> prefix, name |-> name, children |-> <<>>, symbol |-> <<>>]

\* pdb_index_add_from_node: a chain of nodes, with the symbol in its last one.
RECURSIVE AddFrom(_, _, _, _)
AddFrom(node, body, name, data) ==
  IF body = <<>> THEN [node EXCEPT !.symbol = <<data>>]
  ELSE [node EXCEPT !.children =
          Append(@, AddFrom(Node(<<Head(body)>>, name), Tail(body), name, data))]

\* pdb_index_insert below a node whose prefix matched: body is what is left.
\* A leaf that is met again keeps its symbol.
RECURSIVE Below(_, _, _, _)
Below(node, body, name, data) ==
  LET same == {c \in DOMAIN node.children : node.children[c].prefix = <<Head(body)>>}
  IN  CASE node.children = <<>> /\ body = <<>> -> node
        [] node.children # <<>> /\ body = <<>> -> [node EXCEPT !.symbol = <<data>>]
        [] node.children = <<>> /\ body # <<>> -> AddFrom(node, body, name, data)
        [] node.children # <<>> /\ body # <<>> ->
             IF same = {} THEN AddFrom(node, body, name, data)
             ELSE LET c == CHOOSE c \in same : TRUE
                  IN  [node EXCEPT !.children[c] = Below(@, Tail(body), name, data)]

pdb_index_insert(node, name, data) == Below(node, name, name, data)

\* build_rva_index: in the order of a walk, each put in front of the larger.
Placed(array, entry) ==
  LET n == Len(SelectSeq(array, LAMBDA e : e.rva <= entry.rva))
  IN  InsertAt(array, n + 1, entry)

RECURSIVE Walked(_, _)
Walked(array, node) ==
  FoldLeft(Walked,
           IF node.symbol = <<>> THEN array
           ELSE Placed(array, [rva |-> node.symbol[1].rva, name |-> node.name]),
           node.children)

\* The binary search of pdb_index_symbol_name_for_address; SearchExact does not
\* stop where the next symbol is above the address.
RECURSIVE SearchExact(_, _, _, _)
SearchExact(array, rva, lo, hi) ==
  LET mid == ((lo + hi) \div 2)
      at  == array[mid + 1].rva
  IN  CASE lo >= hi \/ at = rva -> mid
        [] lo < hi /\ at > rva  -> SearchExact(array, rva, lo, mid - 1)
        [] lo < hi /\ at < rva  -> SearchExact(array, rva, mid + 1, hi)

RECURSIVE Search(_, _, _, _)
Search(array, rva, lo, hi) ==
  LET mid == ((lo + hi) \div 2)
      at  == array[mid + 1].rva
  IN  CASE lo >= hi \/ at = rva -> mid
        [] lo < hi /\ at > rva  -> Search(array, rva, lo, mid - 1)
        [] lo < hi /\ at < rva  -> IF array[mid + 2].rva > rva THEN mid
                                   ELSE Search(array, rva, mid + 1, hi)

Located(array, rva) == Search(array, rva, 0, Len(array) - 1)

pdb_index_symbol_name_for_address(rva) == index[Located(index, rva) + 1].name

-----------------------------------------------------------------------------
\* At the end of a buffer the next one is read: the rest of the symbol, the
\* next symbol whole or cut in two, or the end of the listing.
Fread ==
  \/ rest # <<>> /\ chunk' = rest /\ rest' = <<>> /\ UNCHANGED listed
  \/ /\ rest = <<>> /\ Len(listed) < MaxSymbols
     /\ \E name \in Names, rva \in Rvas :
          LET whole == Listing(name, rva)
          IN  \E k \in (Cuts \cap 1 .. Len(whole) - 1) \cup {Len(whole)} :
                /\ chunk' = SubSeq(whole, 1, k)
                /\ rest' = SubSeq(whole, k + 1, Len(whole))
                /\ listed' = Append(listed, [name |-> name, rva |-> rva])
  \/ rest = <<>> /\ chunk' = <<>> /\ UNCHANGED <<rest, listed>>

\* What a state of the parser leaves of the buffer.
Left(c) == IF c = <<>> THEN Fread ELSE chunk' = c /\ UNCHANGED <<rest, listed>>

Skipped(c, kinds) ==
  LET n == Cardinality({i \in DOMAIN c : \A j \in 1 .. i : c[j].kind \notin kinds})
  IN  SubSeq(c, n + 1, Len(c))

Run(c, kind) ==
  LET n == Cardinality({i \in DOMAIN c : \A j \in 1 .. i : c[j].kind = kind})
  IN  SubSeq(c, 1, n)

Init ==
  /\ chunk = <<Gap>> /\ rest = <<>> /\ listed = <<>>
  /\ stack = <<"SkipWhitespace", "FindFunction">> /\ tag = "function"
  /\ number = 0 /\ number_buffer = <<>> /\ name_buffer = <<>> /\ stored = <<>>
  /\ symbol = [rva |-> 0, section |-> 0]
  /\ root = Node(<<>>, <<>>) /\ num_symbols = 0
  /\ index = <<>> /\ built = FALSE /\ stale = FALSE

In(state) == chunk # <<>> /\ Head(stack) = state

FoundVars == <<number, number_buffer, name_buffer, stored, symbol, root, num_symbols, index, built, stale>>

\* To the next letter; at the end of the buffer it does not come back.
SkipWhitespace ==
  /\ In("SkipWhitespace")
  /\ stack' = Tail(stack)
  /\ Left(Skipped(chunk, {"letters", "word", "tag"}))
  /\ UNCHANGED <<tag, FoundVars>>

\* The last character of the tag stays in the buffer.
FindTag ==
  /\ In("FindTag")
  /\ LET hits == {i \in DOMAIN chunk : chunk[i] = Tag(tag)}
         hit  == CHOOSE i \in hits : \A j \in hits : i <= j
     IN  IF hits = {} THEN /\ stack' = stack
                           /\ Left(<<>>)
                      ELSE /\ stack' = Tail(stack)
                           /\ Left(<<Gap>> \o SubSeq(chunk, hit + 1, Len(chunk)))
  /\ UNCHANGED <<tag, FoundVars>>

\* A number at the end of the buffer may go on in the next one.  Where the
\* buffer ends before its first digit, there is no number and none is waited
\* for.
ReadNumber ==
  /\ In("ReadNumber")
  /\ LET from   == IF number_buffer = <<>> THEN Skipped(chunk, {"digit"}) ELSE chunk
         digits == number_buffer \o Run(from, "digit")
         after  == SubSeq(from, Len(Run(from, "digit")) + 1, Len(from))
         ended  == digits # <<>> /\ after # <<>>
     IN  /\ number' = IF ended THEN digits[1].v ELSE number
         /\ number_buffer' = IF ended THEN <<>> ELSE digits
         /\ stack' = IF digits # <<>> /\ ~ended THEN stack ELSE Tail(stack)
         /\ stale' = (stale \/ digits = <<>>)
         /\ Left(after)
  /\ UNCHANGED <<tag, name_buffer, stored, symbol, root, num_symbols, index, built>>

\* A name is stored when something that is no letter follows it.  Words and
\* tags are of letters too: the code would read one in front of a name as the
\* name, the model skips it; with no cut of a run does one come there.
ReadName ==
  /\ In("ReadName")
  /\ LET from  == IF name_buffer = <<>> THEN Skipped(chunk, {"letters", "word", "tag"}) ELSE chunk
         name  == name_buffer \o Run(from, "letters")
         after == SubSeq(from, Len(Run(from, "letters")) + 1, Len(from))
         ended == name # <<>> /\ after # <<>>
     IN  /\ stored' = IF ended THEN [i \in DOMAIN name |-> name[i].v] ELSE stored
         /\ name_buffer' = IF ended THEN <<>> ELSE name
         /\ stack' = IF name # <<>> /\ ~ended THEN stack ELSE Tail(stack)
         /\ Left(after)
  /\ UNCHANGED <<tag, number, number_buffer, symbol, root, num_symbols, index, built, stale>>

\* The states that say what comes next.
Follow(state, looked, states) ==
  /\ In(state)
  /\ stack' = states \o Tail(stack)
  /\ tag' = looked
  /\ UNCHANGED <<chunk, rest, listed, FoundVars>>

FindFunction == Follow("FindFunction", "function", <<"FindTag", "FindOffset">>)
FindOffset   == Follow("FindOffset", "offset", <<"FindTag", "ReadNumber", "StoreOffset", "FindSegment">>)
FindSegment  == Follow("FindSegment", "segment", <<"FindTag", "ReadNumber", "StoreSegment", "FindName">>)
FindName     == Follow("FindName", "name", <<"FindTag", "SkipWhitespace", "ReadName", "StoreName">>)

StoreOffset ==
  /\ In("StoreOffset")
  /\ stack' = Tail(stack)
  /\ symbol' = [symbol EXCEPT !.rva = number]
  /\ UNCHANGED <<chunk, rest, listed, tag, number, number_buffer, name_buffer, stored,
                 root, num_symbols, index, built, stale>>

StoreSegment ==
  /\ In("StoreSegment")
  /\ stack' = Tail(stack)
  /\ symbol' = [symbol EXCEPT !.section = number]
  /\ UNCHANGED <<chunk, rest, listed, tag, number, number_buffer, name_buffer, stored,
                 root, num_symbols, index, built, stale>>

\* Into the trie; it is counted also when it was there.
StoreName ==
  /\ In("StoreName")
  /\ root' = pdb_index_insert(root, stored, symbol)
  /\ num_symbols' = num_symbols + 1
  /\ stack' = <<"SkipWhitespace", "FindFunction">> \o Tail(stack)
  /\ UNCHANGED <<chunk, rest, listed, tag, number, number_buffer, name_buffer, stored,
                 symbol, index, built, stale>>

\* After the listing.
BuildIndex ==
  /\ chunk = <<>> /\ ~built
  /\ index' = Walked(<<>>, root)
  /\ built' = TRUE
  /\ UNCHANGED <<chunk, rest, listed, stack, tag, number, number_buffer, name_buffer, stored,
                 symbol, root, num_symbols, stale>>

Next ==
  \/ SkipWhitespace \/ FindTag \/ ReadNumber \/ ReadName
  \/ FindFunction \/ FindOffset \/ StoreOffset \/ FindSegment \/ StoreSegment
  \/ FindName \/ StoreName \/ BuildIndex

-----------------------------------------------------------------------------
\* Every variable is of its type; the parser's stack has five places to fill.
TypeOK ==
  /\ Len(stack) \in 1 .. 5 /\ number \in Rvas \cup {0, 1} /\ symbol.section \in Rvas \cup {0, 1}
  /\ num_symbols \in 0 .. MaxSymbols /\ built \in BOOLEAN /\ stale \in BOOLEAN

\* No name came twice, and none that begins a name listed before it.
NamesApart ==
  \A i, j \in DOMAIN listed : i < j => ~IsPrefix(listed[j].name, listed[i].name)

\* For every address from the first symbol on, the index gives a symbol that
\* starts nearest below it, although the chunks of the listing cut symbols, names
\* and numbers in two and names share tokens: unless a chunk ended between a tag
\* and the number behind it (stale), or a name came that begins one before it.
SymbolsFound ==
  (built /\ listed # <<>> /\ NamesApart /\ ~stale) =>
    /\ Len(index) = num_symbols
    /\ \A rva \in 0 .. 9 :
         LET below == {i \in DOMAIN listed : listed[i].rva <= rva}
             top   == {i \in below : \A j \in below : listed[j].rva <= listed[i].rva}
         IN  below # {} => pdb_index_symbol_name_for_address(rva) \in {listed[i].name : i \in top}

=============================================================================
