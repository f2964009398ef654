---------------------------- MODULE MC_TaskContext ----------------------------
(* Two files, a name that is defined in both, calls with and without an import, *)
(* two aliases that compete, and an index that loses documents to a build.      *)
EXTENDS TaskContext, TLC

A(ty, pa, ti, rk, vis, ab) == [type |-> ty, path |-> pa, title |-> ti, rank |-> rk,
                               visible |-> vis, about |-> ab]
MCArt == [f1 |-> A("code_file", "a.py", "a.py", 1, TRUE, {}),
          s1 |-> A("code_symbol", "a.py", "run", 2, TRUE, {}),
          f2 |-> A("code_file", "b.py", "b.py", 3, TRUE, {}),
          s2 |-> A("code_symbol", "b.py", "run", 4, TRUE, {}),
          s3 |-> A("code_symbol", "b.py", "load", 5, TRUE, {}),
          s4 |-> A("code_symbol", "c.py", "hidden", 6, FALSE, {}),
          t1 |-> A("test", "t.py", "test_run", 7, TRUE, {}),
          d1 |-> A("doc", "d.md", "rules", 8, TRUE, {"a.py"}),
          d2 |-> A("doc", "e.md", "notes", 9, TRUE, {}),
          c1 |-> A("commit", "1", "fix", 10, TRUE, {}),
          l1 |-> A("alias_reference", "l", "the runner", 11, TRUE, {}),
          l2 |-> A("alias_reference", "l", "the loader", 12, TRUE, {})]
MCArts == DOMAIN MCArt
L(t, a, b) == [type |-> t, a |-> a, b |-> b]
MCLinks == <<L("calls", "s1", "s3"), L("defined_in", "s1", "f1"), L("defined_in", "s3", "f2"),
             L("imports", "f1", "f2"), L("calls", "s3", "s2"), L("defined_in", "s2", "f2"),
             L("calls", "s2", "s1"), L("calls", "s4", "s3"), L("tests", "t1", "s3")>>
MCAliasTargets == [l1 |-> <<"s1", "s4">>, l2 |-> <<"s3">>]
MCAliasTier == [l1 |-> "interpreted", l2 |-> "deterministic"]

H(a, s) == [id |-> a, score |-> s]
Full == [fix |-> <<H("d2", 9), H("d1", 8), H("s3", 7), H("c1", 6), H("s4", 5)>>,
         phrase |-> <<H("l1", 10), H("l2", 8), H("d1", 7)>>,
         other |-> <<H("l2", 10), H("l1", 7), H("c1", 3)>>,
         nothing |-> <<H("d1", 2)>>,
         run |-> <<H("s1", 9), H("s2", 9)>>, load |-> <<H("s3", 9), H("t1", 1)>>,
         b |-> <<H("s3", 3), H("f2", 2)>>]
MCIndexes == {Full, [Full EXCEPT !.fix = <<H("d2", 9), H("c1", 6)>>, !.run = <<H("s2", 9)>>,
                                 !.phrase = <<H("l2", 8), H("d1", 7)>>, !.b = <<H("s3", 3)>>]}
TaskAsk(t, ss, fs, f, c) == [task |-> t, symbols |-> ss, files |-> fs, floor |-> f, cap |-> c]
BFile == [query |-> "b", paths |-> {"b.py"}]
MCAsks == {TaskAsk("fix", <<>>, <<>>, "interpreted", 99), TaskAsk("fix", <<>>, <<>>, "interpreted", 4),
           TaskAsk("fix", <<"load">>, <<>>, "deterministic", 5),
           TaskAsk("fix", <<"load", "run">>, <<>>, "interpreted", 7),
           TaskAsk("phrase", <<"nothing">>, <<>>, "interpreted", 99),
           TaskAsk("other", <<>>, <<BFile>>, "interpreted", 99), TaskAsk("other", <<>>, <<>>, "interpreted", 6),
           TaskAsk("nothing", <<>>, <<>>, "interpreted", 99)}
================================================================================
