--------------------------- MODULE MC_ChangeContext ---------------------------
(* Two services and a tool beside them; the tests of a class move with the     *)
(* second version; a client, a logger and an importer next to the class.       *)
EXTENDS ChangeContext, TLC

Dirs == [rest |-> <<"services", "kb", "src">>, client |-> <<"services", "kb", "src">>,
         logging |-> <<"services", "kb">>, api |-> <<"services", "mcp">>, tool |-> <<"tools">>,
         trest |-> <<"services", "kb", "tests">>, tall |-> <<"services", "kb", "src">>,
         tapi |-> <<"services", "mcp">>, twork |-> <<"services", "agents">>,
         vault |-> <<"services", "kb", "src">>, guess |-> <<"services", "kb", "tests">>]
Shared(d, e) == Cardinality({n \in DOMAIN d : n <= Len(e) /\ SubSeq(d, 1, n) = SubSeq(e, 1, n)})
P(f, h, t, u, g) ==
  [service |-> IF Dirs[f][1] = "services" THEN Dirs[f][2] ELSE Elsewhere,
   shares |-> [e \in DOMAIN Dirs |-> Shared(Dirs[f], Dirs[e])],
   stem |-> f, holds |-> h, test |-> t, utility |-> u, guesses |-> g]
MCFile == [rest |-> P("rest", {"rest"}, FALSE, FALSE, <<"guess">>),
           client |-> P("client", {"client"}, FALSE, FALSE, <<>>),
           logging |-> P("logging", {"logging"}, FALSE, TRUE, <<>>),
           api |-> P("api", {"api"}, FALSE, FALSE, <<"guess">>),
           tool |-> P("tool", {"tool"}, FALSE, FALSE, <<"guess">>),
           trest |-> P("trest", {"rest"}, TRUE, FALSE, <<>>),
           tall |-> P("tall", {}, TRUE, FALSE, <<>>),
           tapi |-> P("tapi", {"api"}, TRUE, FALSE, <<>>),
           twork |-> P("twork", {}, TRUE, FALSE, <<>>),
           vault |-> P("vault", {"vault"}, FALSE, FALSE, <<>>),
           guess |-> P("guess", {"rest"}, TRUE, FALSE, <<>>)]
MCFiles == DOMAIN MCFile

Art_(ty, f, ti, me, ch, vis, fr, un) ==
  [type |-> ty, file |-> f, title |-> ti, mentions |-> me, chars |-> ch, visible |-> vis,
   from |-> fr, until |-> un]
MCCodeArt == [s1 |-> Art_("code_symbol", "rest", "Rest", {"Client", "log"}, 8, TRUE, 1, 9),
           f1 |-> Art_("code_file", "rest", "rest.py", {}, 0, TRUE, 1, 9),
           s2 |-> Art_("code_symbol", "client", "Client", {}, 12, TRUE, 1, 9),
           f2 |-> Art_("code_file", "client", "client.py", {}, 0, TRUE, 1, 9),
           s3 |-> Art_("code_symbol", "logging", "log", {}, 4, TRUE, 1, 9),
           f3 |-> Art_("code_file", "logging", "logging.py", {}, 0, TRUE, 1, 9),
           s4 |-> Art_("code_symbol", "api", "Api", {"Rest"}, 4, TRUE, 1, 9),
           f4 |-> Art_("code_file", "api", "api.py", {}, 0, TRUE, 1, 9),
           s5 |-> Art_("code_symbol", "tool", "Toolbox", {"Rest"}, 4, TRUE, 1, 9),
           f5 |-> Art_("code_file", "tool", "tool.py", {}, 0, TRUE, 1, 9),
           s6 |-> Art_("code_symbol", "vault", "VaultError", {}, 4, FALSE, 1, 9),
           f6 |-> Art_("code_file", "vault", "vault.py", {}, 0, FALSE, 1, 9),
           t5 |-> Art_("test", "trest", "test_put", {"Rest"}, 6, FALSE, 1, 9),
           t1 |-> Art_("test", "trest", "test_get", {"Rest"}, 6, TRUE, 2, 9),
           t2 |-> Art_("test", "tall", "test_all", {"Rest", "Api"}, 5, TRUE, 1, 2),
           t3 |-> Art_("test", "tapi", "test_api", {"Api", "Rest"}, 5, TRUE, 1, 9),
           t4 |-> Art_("test", "twork", "test_work", {"Rest"}, 5, TRUE, 1, 9)]
MCCodeArts == DOMAIN MCCodeArt
E_(t, a, b, fr, un) == [type |-> t, a |-> a, b |-> b, from |-> fr, until |-> un]
MCCodeEdges == <<E_("imports", "f1", "f2", 1, 9), E_("imports", "f1", "f3", 1, 9),
             E_("imports", "f4", "f1", 1, 9), E_("imports", "f5", "f1", 1, 9),
             E_("imports", "f1", "f6", 1, 9), E_("defined_in", "s6", "f6", 1, 9),
             E_("tests", "t5", "s1", 1, 9),
             E_("defined_in", "s1", "f1", 1, 9), E_("defined_in", "s2", "f2", 1, 9),
             E_("defined_in", "s3", "f3", 1, 9), E_("defined_in", "s4", "f4", 1, 9),
             E_("defined_in", "s5", "f5", 1, 9), E_("tests", "t1", "s1", 2, 9)>>
OneOrder == <<"t1", "s1", "f1", "t3", "s2", "f2", "t2", "s3", "f3", "t4", "s4", "f4", "s5", "f5", "s6", "f6",
              "t5">>
MCRowOrders == {OneOrder, Reverse(OneOrder)}

T_(h, th, cl, na, wo, bu) ==
  [hits |-> h, testHits |-> th, classes |-> cl, named |-> na, words |-> wo, budget |-> bu]
MCTasks == {T_(<<"s1", "t2", "f1">>, <<"t3", "t2">>, {"Rest"}, {}, {"Rest"}, b) : b \in {5, 8, 99}}
           \union {T_(<<"s1", "t3">>, th, {"Rest"}, {}, {"Rest", "log", "Toolbox"}, 99) : th \in {<<"t3">>, <<"t1", "t2">>}}
           \union {T_(<<"f1", "s2", "t3">>, <<"t2">>, {}, {"rest"}, {}, 99),
                   T_(<<"s4", "s1", "t4", "t3", "t2", "t1">>, <<>>, {"Rest", "Api"}, {}, {}, 99),
                   T_(<<"s1", "t5">>, <<"t5">>, {"Rest"}, {}, {"VaultError"}, 99),
                   T_(<<"s5", "f5">>, <<"t4">>, {}, {}, {"Rest"}, 99),
                   T_(<<"t2", "s4">>, <<"t3">>, {"test_all"}, {"tall"}, {}, 99),
                   T_(<<"t2">>, <<>>, {}, {"tall"}, {}, 99)}
================================================================================
