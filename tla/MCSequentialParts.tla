------------------------- MODULE MCSequentialParts -------------------------
(* The inputs of SequentialParts' run.                                     *)
EXTENDS SequentialParts

\* A phone upright and turned.
MCScreens == {<<360, 640>>, <<640, 360>>}

\* On the Back target; on the cards of Following Eyes, Touch Trail, Flappy
\* Bird (or turned: the placeholder), Touch Diagnostics, Gesture Diagnostics
\* upright and turned; on a control upright and turned.
MCPoints == {<<20, 50>>, <<20, 90>>, <<230, 100>>, <<20, 260>>, <<20, 450>>, <<250, 450>>,
             <<500, 200>>, <<140, 570>>, <<20, 290>>}

MCNumbers == {-8, -1, 0, 1, 7, 8}

\* Up to three flags at a time.
MCPortFlagSets ==
  LET flags == DOMAIN PortFlags IN {{}} \union {{f, g, h} : f, g, h \in flags}
=============================================================================
