----------------------------- MODULE MCService -----------------------------
(* The instance of Service for TLC. *)
EXTENDS Service, TLC

\* A command line with every option at its default but those given.
Defaults == [backend |-> "acp", agent |-> "claude", command |-> None, mode |-> None,
             key |-> None, kid |-> None, token |-> None]

\* options of one backend, with that backend only; of the card, together
MCCommandLines ==
     [backend : {"echo"}, agent : {"claude"}, command : {None}, mode : {None},
      key : {None, "usable", "unusable"}, kid : {None, "k1"}, token : {None, "t1", "unusable"}]
  \cup {[Defaults EXCEPT !.backend = "claude", !.mode = m, !.token = "t1"] :
          m \in {"known", "unknown"}}
  \cup {[Defaults EXCEPT !.command = c, !.token = "t1"] : c \in {None, "cmd", "unusable"}}
  \cup {[Defaults EXCEPT !.agent = "other"], [Defaults EXCEPT !.backend = "other"]}

Basic == [scheme |-> "basic", token |-> "t1"]
Http(public, auth) == [type |-> "http", public |-> public, auth |-> auth]
MCRequests ==
  {[type |-> "lifespan", public |-> FALSE, auth |-> << >>], Http(TRUE, << >>)} \cup
  {Http(FALSE, auth) : auth \in {<< >>, <<Bearer("t1")>>, <<Basic>>,
                                  <<Bearer("t2"), Bearer("t1")>>}}

Tool(name, path, edits) == [block |-> "tool", name |-> name, path |-> path, edits |-> edits]
Says(blocks) == [result |-> FALSE, blocks |-> blocks]
MCBlocks == {[block |-> "text"], [block |-> "empty"], Tool("Write", TRUE, <<"changes">>),
             Tool("MultiEdit", TRUE, <<"malformed", "same">>)}
MCMessages == {
  [result |-> TRUE, blocks |-> << >>],
  Says(<<[block |-> "text"], Tool("Write", TRUE, <<"changes">>)>>),
  Says(<<Tool("MultiEdit", TRUE, <<"malformed", "same">>), [block |-> "empty"]>>)}

MCUpdates == {[update |-> "text"],
              [update |-> "start", content |-> << >>],
              [update |-> "progress", content |-> <<"other", "diff">>],
              [update |-> "usage"]}

MCOptionSets == {{"allow_always", "allow_once", "reject_always"}, {"reject_once"}}

\* ids are compared for equality only, and no property tells them apart
MCSymmetry == Permutations(ReqId)

MCTexts == {<<"a">>, <<"a", "b", "c">>}

\* of a file of three lines: below it, in it and past its end
MCNumbers == {-1, 0, 1, 2, 4}
=============================================================================
