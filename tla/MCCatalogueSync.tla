-------------------------- MODULE MCCatalogueSync --------------------------
\* Two modes: one whose first page ends between two games of one second, which
\* together fill a page and one of which is unusable; the other with one game.
EXTENDS CatalogueSync

CONSTANTS m1, m2

MCGames == {[mode |-> m1, at |-> 1, n |-> 1, usable |-> TRUE],
            [mode |-> m1, at |-> 2, n |-> 1, usable |-> FALSE],
            [mode |-> m1, at |-> 2, n |-> 2, usable |-> TRUE],
            [mode |-> m1, at |-> 4, n |-> 1, usable |-> TRUE],
            [mode |-> m2, at |-> 3, n |-> 1, usable |-> TRUE]}

MCBatches == {{g \in MCGames : g.mode = m1 /\ g.at = 4}}

\* The third is refused: its window is narrower than MinGap.
MCConfigs == {[from |-> 1, until |-> 0, enabled |-> TRUE, modes |-> <<m1, m2>>],
              [from |-> 2, until |-> 4, enabled |-> FALSE, modes |-> <<m1>>],
              [from |-> 3, until |-> 4, enabled |-> TRUE, modes |-> <<m1>>]}
=============================================================================
