--------------------------- MODULE CertificateText ---------------------------
(***************************************************************************)
(* The words of a certificate and what the services make of them.          *)
(*                                                                         *)
(* A text is a sequence of tokens: words, punctuation, and " " where white *)
(* space is.  Words are lower case, because every comparison is made       *)
(* after normalizeText; what that does to white space is modelled.  A date *)
(* is one token, and Written[form][d] is day d printed in a form.          *)
(***************************************************************************)
EXTENDS Integers, SequencesExt, TLC

CONSTANTS Days, Written

Forms == {"iso", "dash", "slash", "long", "us", "us comma", "year slash"}

ASSUME TextAssumption ==
    /\ Written \in [Forms -> [Days -> STRING]]
    /\ \A f, g \in Forms : \A d, e \in Days : Written[f][d] = Written[g][e] => f = g /\ d = e
    /\ \A f \in Forms, d \in Days : Written[f][d] \notin {" ", ":", "-"}

-----------------------------------------------------------------------------
\* The same sequence and the same function; in this form TLC computes them only once.
Listed(t) == t \o <<>>
Table(f) == CHOOSE g \in {f} : g = f

\* The only element of a set that has only one.
Sole(S) == {x \in S : S = {x}}
\* The first of the places of a sequence.
Earliest(places) == {i \in places : \A j \in places : i <= j}

\* The part of a text that Keep holds of, by position.
Kept(t, Keep(_)) ==
    LET places == SelectSeq([i \in DOMAIN t |-> i], Keep)
    IN Listed([k \in DOMAIN places |-> t[places[k]]])

Blank(t) == \A i \in DOMAIN t : t[i] = " "

\* normalizeText: white space is collapsed, and trimmed at the ends.
Norm(t) ==
    IF Blank(t) THEN <<>>
    ELSE Kept(t, LAMBDA i : \/ t[i] # " "
                            \/ /\ i > 1 /\ t[i - 1] # " "
                               /\ ~Blank(SubSeq(t, i, Len(t))))

\* array.join(" ")
Joined(texts) ==
    FlattenSeq([k \in DOMAIN texts |-> IF k = 1 THEN texts[1] ELSE <<" ">> \o texts[k]])

\* text.includes(part)
Includes(t, part) ==
    \E i \in 0..(Len(t) - Len(part)) : SubSeq(t, i + 1, i + Len(part)) = part

-----------------------------------------------------------------------------
(* Field values.                                                           *)

Fields == <<"student_name", "student_number", "institution_name", "programme",
            "qualification", "classification", "issue_date">>
FieldNames == {Fields[i] : i \in DOMAIN Fields}

Phrase(words) == Joined([i \in DOMAIN words |-> <<words[i]>>])

\* The labels of a field, the longest first, as every search sorts them.
Labels == [
    student_name     |-> <<Phrase(<<"student", "name">>), Phrase(<<"holder", "name">>),
                           <<"holder">>, <<"name">>>>,
    student_number   |-> <<Phrase(<<"student", "/", "registration", "number">>),
                           Phrase(<<"registration", "number">>), Phrase(<<"student", "number">>)>>,
    institution_name |-> <<Phrase(<<"institution", "name">>), <<"institution">>>>,
    programme        |-> <<<<"programme">>, <<"program">>>>,
    qualification    |-> <<<<"qualification">>>>,
    classification   |-> <<Phrase(<<"degree", "classification">>), <<"classification">>>>,
    issue_date       |-> <<Phrase(<<"date", "of", "issue">>), Phrase(<<"date", "of", "award">>),
                           Phrase(<<"issue", "date">>), Phrase(<<"award", "date">>)>>]

HolderContexts ==
    {Phrase(<<"this", "is", "to", "certify", "that">>), Phrase(<<"this", "certifies", "that">>),
     Phrase(<<"awarded", "to">>), Phrase(<<"presented", "to">>)}
QualificationContexts ==
    {Phrase(<<"has", "been", "awarded", "the", "qualification">>),
     Phrase(<<"has", "been", "awarded", "qualification">>), Phrase(<<"qualification", "awarded">>)}
Contexts(f) ==
    CASE f = "student_name" -> HolderContexts
      [] f = "qualification" -> QualificationContexts
      [] OTHER -> {}

\* "issued by <institution> on <date>", with nothing before or after.
IssuedFields == {"institution_name", "issue_date"}
IssuedBy == Phrase(<<"issued", "by">>)
IssuedParts(t) ==
    {[institution_name |-> SubSeq(t, 5, i - 2), issue_date |-> SubSeq(t, i + 2, Len(t))] :
        i \in {j \in 7..Len(t) - 2 :
                 /\ SubSeq(t, 1, 4) = Append(IssuedBy, " ")
                 /\ SubSeq(t, j - 1, j + 1) = <<" ", "on", " ">>
                 /\ \A k \in 7..j - 1 : SubSeq(t, k - 1, k + 1) # <<" ", "on", " ">>}}
IssuedPart(t, f) == (CHOOSE parts \in IssuedParts(t) : TRUE)[f]

\* The days a text names, if it is a date in one of the forms.
Named(t, forms) == {d \in Days : \E f \in forms : t = <<Written[f][d]>>}

\* canonicalizeDate knows these forms; a year first with slashes is not among them.
CanonicalForms == {"iso", "dash", "slash", "long", "us", "us comma"}
CanonicalizeDate(t) ==
    LET found == Named(Norm(t), CanonicalForms)
    IN IF found = {} THEN <<>> ELSE <<Written.iso[CHOOSE d \in found : TRUE]>>

\* canonicalizeFieldValue; <<>> stands for null.
CanonicalizeFieldValue(f, t) == IF f = "issue_date" THEN CanonicalizeDate(t) ELSE Norm(t)

\* The value of a field in a credential's row: a text, <<>> if it has none, or a day.
Official(f, credential) ==
    IF f = "issue_date" THEN <<Written.iso[credential.issue_date]>> ELSE credential[f]
=============================================================================
