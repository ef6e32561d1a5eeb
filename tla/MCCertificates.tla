--------------------------- MODULE MCCertificates ---------------------------
(* Two credentials of one student, with certificates laid out differently: *)
(* one reads like a letter, the other like a form.  Documents are made     *)
(* from them by printing them again, with values changed, or as the         *)
(* platform's own presentation certificate.                                *)
EXTENDS Uploads

CONSTANTS c1, c2

MCUuids == {"u1", "u2", "t1", "t2"}
MCId == c1 :> "u1" @@ c2 :> "u2"
MCToken == c1 :> "t1" @@ c2 :> "t2"
MCStudentPatterns == <<{"v1"}, {"r1", "r3"}, {"s1"}>>
MCDays == {1, 2, 3}
MCWritten == [form \in Forms |-> [d \in MCDays |-> form \o ToString(d)]]

MCValues(qualification, day) ==
    [student_name |-> Phrase(<<"ada", "moyo">>), student_number |-> <<"r1">>,
     institution_name |-> Phrase(<<"harare", "college">>), programme |-> <<"mechanics">>,
     qualification |-> qualification, classification |-> <<>>, issue_date |-> day]
MCIssued == c1 :> MCValues(<<"mechanics">>, 1) @@ c2 :> MCValues(Phrase(<<"applied", "physics">>), 2)
MCRenamed == [c \in Creds |-> [MCIssued[c] EXCEPT !.student_name = Phrase(<<"ada", "ncube">>),
                                                  !.student_number = <<"s1">>]]

-----------------------------------------------------------------------------
\* A line of text at a place: one item, or an item for each word, with an item for each
\* space between them or a gap.
Item(text, x, y, h) == [text |-> text, x |-> x, y |-> y, w |-> 50 * Len(text), h |-> h, font |-> "f"]
Line(words, x, y, print) ==
    IF print = "whole" THEN <<Item(words, x, y, 120)>>
    ELSE SelectSeq([i \in DOMAIN words |-> Item(<<words[i]>>, x + 50 * i, y, 120)],
                   LAMBDA item : print = "spaced" \/ item.text # <<" ">>)
Lines(lines, print) ==
    FlattenSeq([k \in DOMAIN lines |-> Line(lines[k][1], lines[k][2], lines[k][3], print)])
\* A page of A4, or everything on it size fifths as large.
Page(items, size) ==
    LET Scaled(n) == (n * size) \div 5
    IN [items |-> [i \in DOMAIN items |-> [items[i] EXCEPT !.x = Scaled(@), !.y = Scaled(@), !.w = Scaled(@),
                                                           !.h = Scaled(@)]],
        width |-> Scaled(PageWidth), height |-> Scaled(PageHeight)]
Labelled(label, mark, value) == label \o mark \o value

Letter(v) == <<
    <<Phrase(<<"this", "is", "to", "certify", "that">>), 1000, 7200>>,
    <<v.student_name, 1000, 6950>>,
    <<Labelled(Phrase(<<"student", "number">>), <<":", " ">>, v.student_number), 1000, 6600>>,
    <<Labelled(<<"programme">>, <<":", " ">>, v.programme), 1000, 6250>>,
    <<Phrase(<<"has", "been", "awarded", "the", "qualification">>), 1000, 5900>>,
    <<v.qualification, 1000, 5650>>,
    <<IssuedBy \o <<" ">> \o v.institution_name \o <<" ", "on", " ">> \o
      <<Written["long"][v.issue_date]>>, 1000, 5200>>>>

\* A value of several words takes two rows.
First(value) == IF Len(value) > 1 THEN <<value[1]>> ELSE value
Second(value) == SubSeq(value, 3, Len(value))
Form(v) == <<
    <<v.institution_name, 1500, 7600>>,
    <<Phrase(<<"holder", "name">>), 1000, 7200>>,
    <<First(v.student_name), 1000, 7050>>,
    <<Second(v.student_name), 1000, 6900>>,
    <<Phrase(<<"registration", "number">>), 1000, 6600>>,
    <<v.student_number, 1000, 6450>>,
    <<v.programme, 1000, 6100>>,
    <<Labelled(<<"qualification">>, <<" ", "-", " ">>, v.qualification), 1000, 5700>>,
    <<Phrase(<<"date", "of", "issue">>), 1000, 5300>>,
    <<<<Written["slash"][v.issue_date]>>, 1000, 5150>>>>

\* generatePresentationCertificate
Presentation(c, v) == <<
    <<Phrase(<<"certificate", "of", "qualification">>), 2000, 7500>>,
    <<Phrase(<<"this", "presentation", "certificate", "confirms", "that">>), 2000, 7200>>,
    <<v.student_name, 2000, 6950>>,
    <<Phrase(<<"was", "awarded">>), 2000, 6700>>,
    <<v.qualification, 2000, 6450>>,
    <<<<"by", " ">> \o v.institution_name \o <<" ", "on", " ">> \o <<Written["iso"][v.issue_date]>>, 2000, 6200>>,
    <<Labelled(Phrase(<<"credential", "id">>), <<":", " ">>, <<Id[c]>>), 600, 4000>>,
    <<Labelled(Phrase(<<"verification", "url">>), <<":", " ">>, <<Token[c]>>), 600, 3600>>>>

MCRendered(document) ==
    LET lines == CASE document.print = "presentation" -> Presentation(document.of, document.shows)
                   [] document.print # "presentation" /\ document.of = c1 -> Letter(document.shows)
                   [] document.print # "presentation" /\ document.of = c2 -> Form(document.shows)
        style == IF document.print \in {"spaced", "gapped"} THEN document.print ELSE "whole"
        size == IF document.print = "enlarged" THEN 6 ELSE 5
    IN [pages |-> <<Page(Lines(SelectSeq(lines, LAMBDA l : l[1] # <<>>), style), size)>>,
        meta |-> IF document = Genuine[document.of] THEN 0 ELSE 1]

-----------------------------------------------------------------------------
Document(c, values, print) == [of |-> c, shows |-> values, print |-> print]
MCGenuine == [c \in Creds |-> Document(c, MCIssued[c], "whole")]

\* One value changed for another, or blanked.
Other == [student_name |-> Phrase(<<"ada", "dube">>), student_number |-> <<"r3">>,
          institution_name |-> Phrase(<<"harare", "university">>), programme |-> <<"chemistry">>,
          qualification |-> <<"chemistry">>, issue_date |-> 3]
Changed(c) == {[MCIssued[c] EXCEPT ![f] = Other[f]] : f \in DOMAIN Other}
Twice(c) == {[[MCIssued[c] EXCEPT ![f] = Other[f]] EXCEPT ![g] = Other[g]] :
               f \in {"qualification"}, g \in {"student_name", "issue_date"}}
Blanked(c) == {[MCIssued[c] EXCEPT ![f] = <<>>] : f \in {"student_name", "student_number", "programme"}}
MCDocuments ==
    UNION {{Document(c, v, "whole") : v \in Changed(c) \cup Blanked(c)}
           \cup {Document(c, MCIssued[c], print) : print \in {"whole", "resaved", "spaced", "gapped", "enlarged", "presentation"}}
           \cup {Document(c, [MCIssued[c] EXCEPT !.student_name = Other.student_name], "spaced")} : c \in Creds}
    \cup {Document(c2, v, "whole") : v \in Twice(c2)}
=============================================================================
