------------------------------- MODULE Fields -------------------------------
(* What params.h promises of a set of parameters: it has one value for each name, in
   the order in which the names came; params_append joins a value to the old one by a
   comma, params_replace puts it in its place, params_remove takes the field away, and
   params_merge appends the fields of another set. Names are compared without regard
   to case: here they are in lower case. *)
EXTENDS Integers, Sequences, SequencesExt

CONSTANT Comma

Named(f, name) == {i \in DOMAIN f : f[i].name = name}

Unique(f) == \A i \in DOMAIN f : Named(f, f[i].name) = {i}

\* The field of that name with its value changed, or a new one.
Change(f, name, Changed(_), value) ==
    IF Named(f, name) = {} THEN Append(f, [name |-> name, value |-> value])
    ELSE [i \in DOMAIN f |-> IF i \in Named(f, name)
                             THEN [f[i] EXCEPT !.value = Changed(@)] ELSE f[i]]

Joined(f, name, value)   == Change(f, name, LAMBDA old : old \o <<Comma>> \o value, value)
Replaced(f, name, value) == Change(f, name, LAMBDA old : value, value)

Removed(f, name) ==
    IF Named(f, name) = {} THEN f
    ELSE RemoveAt(f, CHOOSE i \in Named(f, name) : TRUE)

Merged(f, g) == FoldLeft(LAMBDA all, field : Joined(all, field.name, field.value), f, g)
=============================================================================
