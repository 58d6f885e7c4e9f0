---------------------------- MODULE MCDictIndex ----------------------------
(* Small dictionaries for TLC. *)
EXTENDS DictIndex

Class(chars, negated) == [chars |-> chars, negated |-> negated]
Rule(kind, flag, strip, affix, cond) ==
  [kind |-> kind, flag |-> flag, strip |-> strip, affix |-> affix, cond |-> cond, valid |-> TRUE]
Header(flag, cross) == [kind |-> "header", flag |-> flag, cross |-> cross]

(* Prefix group P adds an o before a z or zdot, or puts Zdot for a leading  *)
(* z; suffix group S adds zdot after o, or puts oacute for it; group T is  *)
(* never a cross product and has a rule whose condition does not compile.  *)
Aff(crossP, crossS) ==
  << [kind |-> "NEEDAFFIX", flag |-> "N"], [kind |-> "FORBIDDENWORD", flag |-> "F"],
     [kind |-> "ONLYINCOMPOUND", flag |-> "C"], [kind |-> "TRY"],
     Header("P", crossP),
     Rule("PFX", "P", <<>>, << "o" >>, << Class({"z", "zdot"}, FALSE) >>),
     Rule("PFX", "P", << "z" >>, << "Zdot" >>, <<>>),
     Header("S", crossS),
     Rule("SFX", "S", <<>>, << "zdot" >>, << Class({}, TRUE), Class({"o"}, FALSE) >>),
     Rule("SFX", "S", << "o" >>, << "oacute" >>, << Class({"1"}, TRUE), Class({"o"}, FALSE) >>),
     Header("T", FALSE),
     Rule("SFX", "T", <<>>, << "z" >>, <<>>),
     [Rule("SFX", "T", <<>>, << "o" >>, <<>>) EXCEPT !.valid = FALSE] >>
MCAffFiles == { Aff(TRUE, TRUE), Aff(TRUE, FALSE), Aff(FALSE, TRUE) }

Entry(word, flags) == [word |-> word, flags |-> flags]
Varied == { Entry(w, f) : w \in { << "z", "o" >>, << "Zdot", "o" >> },
                          f \in SUBSET {"P", "S", "N"} \cup { {"F", "S"}, {"C", "P"}, {"T", "P"} } }
Fixed  == { << Entry(<< "z", "oacute" >>, {}), Entry(<< "o", "z" >>, {"P", "T"}) >>,
            << Entry(<< "zdot", "o" >>, {}), Entry(<< "zdot", "oacute" >>, {"P"}),
               Entry(<< "z", "1", "o" >>, {"S"}), Entry(<< "eacute", "Z" >>, {"T"}),
               Entry(<< "z", "Oacute" >>, {}) >> }
MCDicFiles == { << e >> \o rest : e \in Varied, rest \in Fixed } \cup { <<>> }

MCQueries == { << "z", "o" >>, << "o", "z" >>, << "z", "o", "z" >>, << "o", "z", "o", "z" >>, << "z" >> }
=============================================================================
