--------------------------- MODULE MCSourceUpdate ---------------------------
EXTENDS SourceUpdate

MCSources == {"src/main.rs", "src/lib.rs"}
MCPreserved == {"rules.yaml"}
MCProtected == {"db/ui.sqlite"}

=============================================================================
