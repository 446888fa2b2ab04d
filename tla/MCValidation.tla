------------------------------ MODULE MCValidation ------------------------------
(* Instances of Validation for TLC. *)
EXTENDS Validation, SequencesExt

AllReferences == BoundedSeq({"word", "dot", "slash"}, MaxBytes + 1)
                   \cup {<<"colon">>, <<"word", "other">>}

MCTexts == {<<>>, <<"word">>, <<"dot">>, <<"word", "colon">>,
            <<"word", "word", "word", "word", "word">>}

MCCallers == {<<"word">>, <<"word", "dot">>, <<"slash">>}
================================================================================
