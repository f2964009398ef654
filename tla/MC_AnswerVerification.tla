------------------------- MODULE MC_AnswerVerification -------------------------
(* A file with an import and a definition, one unit that the next version drops, *)
(* and one that the requester may not see.                                       *)
EXTENDS AnswerVerification, TLC

CONSTANTS file, sym, mod, secret, bad, noQuote, noAssertion, red, blue, k1, noKey, ide, bot,
          v1, v2

U(f, t, acl, ty, ti, pa) == [from |-> f, until |-> t, acl |-> acl, type |-> ty, title |-> ti,
                             path |-> pa]
MCUnits == {file, sym, mod, secret}
MCUnit == (file   :> U(1, 3, {}, "code_file", "a.py", "a.py")) @@
          (sym    :> U(1, 3, {red}, "code_symbol", "f", "a.py")) @@
          (mod    :> U(1, 3, {}, "code_file", "m", "m.py")) @@
          (secret :> U(1, 2, {blue}, "code_symbol", "g", "m.py"))
MCEdges == {[type |-> "imports", a |-> file, b |-> mod, trust |-> "INFERRED_HIGH", from |-> 1,
             until |-> 2],
            [type |-> "imports", a |-> file, b |-> mod, trust |-> "EXTRACTED", from |-> 2,
             until |-> 3],
            [type |-> "defines", a |-> file, b |-> sym, trust |-> "EXTRACTED", from |-> 2,
             until |-> 3]}

Claim(id, tx, ci, q, a) == [id |-> id, text |-> tx, cites |-> ci, quote |-> q, assertion |-> a]
Imports == [kind |-> "file_imports_module", file |-> "a.py", module |-> "m"]
Defined == [kind |-> "symbol_in_file", symbol |-> "f", file |-> "a.py"]
Misread == [kind |-> "symbol_in_file", symbol |-> "f", file |-> "m.py"]
JoinedBy  == [kind |-> "edge_between", edge |-> "defines", a |-> sym, b |-> file]
Plain(id, ci) == Claim(id, "t1", ci, noQuote, noAssertion)

Req(cs, ls, cl) == [claims |-> cs, levels |-> ls, client |-> cl, active |-> TRUE]
MCRequests == {
  Req(<<Plain("c1", <<file, secret>>), Plain("c2", <<file>>), Plain("c3", <<file>>)>>,
      {"L3"}, bot),
  [Req(<<Plain("c1", <<file>>)>>, {"L1", "L2", "L3"}, ide) EXCEPT !.active = FALSE],
  Req(<<Claim("c1", "t1", <<file>>, [long |-> FALSE, of |-> {file}], noAssertion),
        Claim("c2", "t2", <<sym, bad>>, [long |-> FALSE, of |-> {mod}], noAssertion)>>,
      {"L1", "L3"}, ide),
  Req(<<Claim("c1", "t2", <<sym>>, noQuote, Misread)>>, {"L2"}, ide),
  Req(<<Claim("c1", "t2", <<file>>, [long |-> TRUE, of |-> {file}], Imports),
        Claim("c2", "t2", <<sym>>, noQuote, Defined)>>, {"L1", "L2"}, bot),
  Req(<<Claim("c1", "t2", <<file, sym>>, noQuote, JoinedBy),
        Claim("c2", "t2", <<file>>, noQuote, Imports)>>, {"L2", "L3"}, bot)}
Twin(a) == Claim("c1", "t2", <<sym>>, noQuote, a)
MCTwins == {Req(<<Twin(Misread), Twin(Defined)>>, {"L2"}, bot)}
Slots == Permutations({v1, v2})
================================================================================
