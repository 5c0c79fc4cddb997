---------------------------- MODULE MCSessionHost ----------------------------
(***************************************************************************)
(* Small instances of SessionHost: one letter to type, no candidates to    *)
(* choose, the whole life of the composition in the host's text.           *)
(***************************************************************************)
EXTENDS SessionHost

MCByte == {"a"}
MCBreak(text, i) == TRUE
MCGenerate(text) == {[texts |-> <<>>, failed |-> {}]}
MCInsertTexts == {<<"a">>}
MCContexts == {[before |-> 0, selected |-> 0, after |-> 0, scope |-> "Normal",
                context_epoch |-> 1, origin |-> "none"]}

OneHardwareKey == {[key |-> [character |-> <<"a">>], down |-> TRUE,
                    command_modifier |-> FALSE, repeat_count |-> 1]}

Discipline(synchronous, in_order, performs_all) ==
    [synchronous |-> synchronous, in_order |-> in_order, performs_all |-> performs_all]

\* A host that settles before the next event, one that falls behind but is orderly, and
\* one that is neither.
EveryHost == {Discipline(TRUE, TRUE, FALSE), Discipline(FALSE, TRUE, TRUE),
              Discipline(FALSE, FALSE, FALSE)}

PerformsAnyOrder == {Discipline(FALSE, FALSE, TRUE)}
RefusesInOrder   == {Discipline(FALSE, TRUE, FALSE)}
=============================================================================
