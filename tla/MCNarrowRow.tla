---------------------------- MODULE MCNarrowRow ----------------------------
(* A certificate headed by the institution's name on two rows, the first    *)
(* of which is one short word, and a copy of it.                            *)
EXTENDS MCCertificates

NarrowIssued ==
    [c \in Creds |->
       [MCIssued[c] EXCEPT !.institution_name = Phrase(<<"the", "catholic", "university", "of", "zimbabwe">>)]]
NarrowGenuine == [c \in Creds |-> Document(c, NarrowIssued[c], "whole")]
NarrowDocuments == UNION {{Document(c, NarrowIssued[c], print) : print \in {"whole", "resaved"}} : c \in Creds}

Headed(v) == <<<<First(v.institution_name), 1500, 7600>>, <<Second(v.institution_name), 1500, 7450>>>> \o Tail(Form(v))
NarrowRendered(document) ==
    [pages |-> <<Page(Lines(SelectSeq(Headed(document.shows), LAMBDA l : l[1] # <<>>), "whole"), 5)>>,
     meta |-> IF document.print = "whole" THEN 0 ELSE 1]
=============================================================================
