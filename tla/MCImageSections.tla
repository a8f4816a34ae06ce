-------------------------- MODULE MCImageSections --------------------------
(* Words of three bits; two or three sections, apart, adjacent, overlapping,  *)
(* empty, past the end of the image, or ending past the largest word.         *)
EXTENDS ImageSections

Header(rvas, virtuals, raws, pointers, kinds) ==
  [rva : rvas, virtual : virtuals, raw : raws, pointer : pointers,
   scanned : kinds]

MCPairs ==
  {<<g, h>> : g \in Header({0, 2}, {0, 3}, {0, 1, 3}, {0, 2}, BOOLEAN),
              h \in Header({2, 5}, {0, 1, 7}, {0, 2}, {1, 5}, {TRUE})}
MCTriples ==
  {<<f, g, h>> : f \in Header({0, 3}, {2}, {1}, {1}, {TRUE}),
                 g \in Header({2, 5}, {1, 2}, {0}, {0}, BOOLEAN),
                 h \in Header({1, 3, 4}, {2}, {1, 2}, {2}, {TRUE})}
MCHeaders == {<<>>} \cup MCPairs \cup MCTriples
=============================================================================
