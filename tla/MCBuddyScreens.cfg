CONSTANT MaxAnims = 3
SPECIFICATION Spec
INVARIANT PagesSettle
