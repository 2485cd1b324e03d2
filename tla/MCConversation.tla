--------------------------- MODULE MCConversation ---------------------------
EXTENDS Conversation

MCShapes == {<<>>, <<"thinking", "text">>, <<"text", "read">>, <<"read", "write">>, <<"read", "read">>}

\* Limits about the smallest budget and the ceilings of the models; every effort.
MCAsks ==
  {[Ask EXCEPT !.limit = l, !.thinking = t] : l \in {1, 1024, 1025, 4096, 40000, 100000}, t \in BOOLEAN}
    \cup {[Ask EXCEPT !.limit = l, !.older = o] : l \in {Absent, 4096}, o \in {Absent, 100, 200000}}
    \cup {[Ask EXCEPT !.limit = l, !.effort = e, !.temperature = TRUE] :
             l \in {1024, 4096}, e \in Efforts \ {""}}
    \cup {[Ask EXCEPT !.limit = 4096, !.tools = t, !.stop = s, !.choice = c] :
             t \in {TRUE}, s \in BOOLEAN, c \in {"", Must, "read"}}
=============================================================================
