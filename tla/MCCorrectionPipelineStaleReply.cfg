SPECIFICATION Spec
INVARIANT PublishedIsChecked
