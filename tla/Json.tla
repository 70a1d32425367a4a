-------------------------------- MODULE Json --------------------------------
(***************************************************************************)
(* The JSON writer, the tokeniser and the lookup of                        *)
(* libc/include/extensions/json.h.  A document is a sequence of lexemes; a *)
(* string has no quote and no brace in it, a number is not negative (the   *)
(* tokeniser would not come past its sign).                                *)
(***************************************************************************)
EXTENDS Integers, Sequences, SequencesExt

CONSTANTS
  Keys,      \* the names of members
  Strings,   \* the string values; a key may be one of them
  Numbers,   \* the numbers
  MaxDepth,  \* bound: objects inside one another
  MaxKeys    \* bound: calls of json_write_key

VARIABLES
  out,          \* what was written
  obj_has_key,  \* _obj_has_key
  keys_added,   \* _keys_added
  open,         \* for each open object, outermost first, the keys it has
  pending,      \* a key was written and its value was not
  path,         \* the keys the open objects but the outermost are values of
  members       \* the values written, each under the keys that lead to it

Lexeme(type, v) == [type |-> type, v |-> v]
Mark(type)      == Lexeme(type, "")

Init ==
  /\ out = <<>> /\ obj_has_key = FALSE /\ keys_added = 0
  /\ open = <<>> /\ pending = <<>> /\ path = <<>> /\ members = {}

-----------------------------------------------------------------------------
json_write_object_start ==
  /\ \/ out = <<>>
     \/ pending # <<>> /\ Len(open) < MaxDepth
  /\ out' = Append(out, Mark("{"))
  /\ obj_has_key' = FALSE
  /\ open' = Append(open, {})
  /\ path' = path \o pending
  /\ pending' = <<>>
  /\ UNCHANGED <<keys_added, members>>

json_write_object_end ==
  /\ open # <<>> /\ pending = <<>>
  /\ out' = Append(out, Mark("}"))
  /\ open' = Front(open)
  /\ path' = IF path = <<>> THEN <<>> ELSE Front(path)
  /\ UNCHANGED <<obj_has_key, keys_added, pending, members>>

\* The comma depends on the last object that was started, not on this one.
json_write_key ==
  /\ open # <<>> /\ pending = <<>> /\ keys_added < MaxKeys
  /\ \E k \in Keys \ Last(open) :
       /\ out' = out \o (IF obj_has_key THEN <<Mark(",")>> ELSE <<>>)
                     \o <<Lexeme("string", k), Mark(":")>>
       /\ pending' = <<k>>
       /\ open' = [open EXCEPT ![Len(open)] = @ \cup {k}]
  /\ obj_has_key' = TRUE
  /\ keys_added' = keys_added + 1
  /\ UNCHANGED <<path, members>>

WriteValue(type, v) ==
  /\ pending # <<>>
  /\ out' = Append(out, Lexeme(type, v))
  /\ members' = members \cup {[path |-> path \o pending, value |-> Lexeme(type, v)]}
  /\ pending' = <<>>
  /\ UNCHANGED <<obj_has_key, keys_added, open, path>>

json_write_number == \E n \in Numbers : WriteValue("number", n)
json_write_string == \E s \in Strings : WriteValue("string", s)

Next ==
  \/ json_write_object_start \/ json_write_object_end
  \/ json_write_key \/ json_write_number \/ json_write_string

-----------------------------------------------------------------------------
\* One lexeme of json_tokenise: inside an object it only counts braces, and
\* the object becomes one token, the slice between its braces.
Closed(s, lexeme) == lexeme.type = "}" /\ s.level = 1

Tokenised(s, lexeme) ==
  CASE s.level > 0 /\ Closed(s, lexeme) ->
         [level |-> 0, slice |-> <<>>,
          tokens |-> Append(s.tokens, [type |-> "object", v |-> "", slice |-> s.slice])]
    [] s.level > 0 /\ ~Closed(s, lexeme) ->
         [s EXCEPT !.slice = Append(@, lexeme),
                   !.level = @ + CASE lexeme.type = "{" -> 1
                                   [] lexeme.type = "}" -> -1
                                   [] OTHER -> 0]
    [] s.level = 0 /\ lexeme.type = "{" -> [s EXCEPT !.level = 1, !.slice = <<>>]
    [] s.level = 0 /\ lexeme.type = "," -> s
    [] s.level = 0 /\ lexeme.type \in {":", "string", "number"} ->
         [s EXCEPT !.tokens = Append(@, [type |-> lexeme.type, v |-> lexeme.v, slice |-> <<>>])]

json_tokenise(lexemes) ==
  FoldLeft(Tokenised, [level |-> 0, slice |-> <<>>, tokens |-> <<>>], lexemes).tokens

\* One token of json_value: a string is a key unless a separator came before
\* it, and the first value after the key is the one.
Looked(s, token, key) ==
  LET value == s.found /\ (token.type \in {"number", "object"} \/ (token.type = "string" /\ ~s.is_key))
  IN  CASE s.value # <<>>         -> s
        [] s.value = <<>> /\ value -> [s EXCEPT !.value = <<token>>]
        [] s.value = <<>> /\ ~value /\ token.type = ":" -> [s EXCEPT !.is_key = FALSE]
        [] s.value = <<>> /\ ~value /\ token.type = "string" ->
             [s EXCEPT !.found = @ \/ (s.is_key /\ token.v = key), !.is_key = ~@]
        [] OTHER -> [s EXCEPT !.is_key = TRUE]

json_value(tokens, key) ==
  FoldLeft(LAMBDA s, t : Looked(s, t, key), [found |-> FALSE, is_key |-> TRUE, value |-> <<>>], tokens).value

\* The slice of the object a path leads to; nothing when a key is not there.
Inside(lexemes, p) ==
  FoldLeft(LAMBDA at, key :
             LET v == IF at = <<>> THEN <<>> ELSE json_value(json_tokenise(at[1]), key)
             IN  IF v = <<>> THEN <<>> ELSE <<v[1].slice>>,
           <<json_tokenise(lexemes)[1].slice>>, p)

-----------------------------------------------------------------------------
\* Every variable is of its type.
TypeOK ==
  /\ obj_has_key \in BOOLEAN /\ keys_added \in 0 .. MaxKeys
  /\ Len(open) <= MaxDepth /\ Len(path) <= MaxDepth /\ Len(pending) <= 1

\* In a finished document every value is found by the keys it was written
\* under, whatever other objects hold, strings that look like keys among them.
MembersReadBack ==
  (out # <<>> /\ open = <<>>) =>
    \A m \in members :
      LET at == Inside(out, Front(m.path))
          v  == IF at = <<>> THEN <<>> ELSE json_value(json_tokenise(at[1]), Last(m.path))
      IN  v # <<>> /\ v[1].type = m.value.type /\ v[1].v = m.value.v

=============================================================================
