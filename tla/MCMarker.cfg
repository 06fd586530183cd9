SPECIFICATION Spec
INVARIANT MarkerGuaranteesInputs
