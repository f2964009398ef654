------------------------------ MODULE MC_KbAgent ------------------------------
(* A module with a line that occurs twice and one the linter removes, a file to *)
(* be created; turns that search in bursts, edit twice, and overwrite.          *)
EXTENDS MC_Retrieval, KbAgent

MCFirstRepos == {"app" :> <<"import", "def", "pass", "pass">>,
                 "app" :> <<"def">> @@ "new" :> <<>>}

AllSearch == [tool |-> "kb_search", query |-> [sym |-> 3, doc |-> 1, wiki |-> 2, card |-> 2]]
NoTerms == [tool |-> "kb_search", query |-> [sym \in {} |-> 0]]
EditOf(f, old, new) == [tool |-> "edit", file |-> f, old |-> old, new |-> new]
ToolOn(tool, f) == [tool |-> tool, file |-> f]
MCTurns == {<<>>, <<AllSearch, NoTerms, AllSearch>>, <<ToolOn("unknown", "app"), AllSearch>>,
            <<EditOf("app", "def", <<"def", "body">>), ToolOn("lint", "app")>>,
            <<EditOf("new", "none", <<"code">>), EditOf("app", "none", <<"code">>)>>,
            <<EditOf("app", "pass", <<"code">>), EditOf("elsewhere", "none", <<"code">>), ToolOn("read", "new")>>}
================================================================================
